---- MODULE Spec2Model ----
(***************************************************************************)
(* A model of commity: one invocation of runCommity after the other        *)
(* against one repository, with the YAML configuration document, the       *)
(* per-repository cache file and the interactive form.  Further            *)
(* specifications look at one part each: validateInput, the seeding of the *)
(* fields, the rendering, a file system that fails, the cache files of     *)
(* several repository paths, the lookup of the config file, the option     *)
(* labels and entries that share a name.                                   *)
(*                                                                         *)
(* Strings that the program inspects (field values, overlay values, option *)
(* values) are sequences of characters; names, patterns and templates,     *)
(* which the program only compares or hands to a library, are TLA+ strings.*)
(***************************************************************************)
EXTENDS Integers, Sequences, FiniteSets, TLC

VARIABLES
    doc,          \* the configuration document LoadConfig finds, or NoDoc
    file,         \* the cache file of the repository
    pc,           \* position of the current run in runCommity
    stagedFiles,  \* result of utils.GetStagedFiles
    overrides,    \* the -map flags of the invocation, as parsed by main
    paramMap,     \* runCommity's paramMap (overrides, then merged with the file)
    c,            \* the Configuration UnmarshalYAML is filling
    idx,          \* index of the next node of raw.Entries to decode
    cfg,          \* the Configuration LoadConfig returned, or Nil
    err,          \* the error of the failing step, or NoErr
    storedKeys,   \* getStoredKeys' result
    cur,          \* index of the form group that has the focus
    inlineErr,    \* the validation error the focused field shows, or NoErr
    vcall,        \* the last call of validateInput and what it returned
    overlayRejected, \* a Text field's overlay value was submitted and refused
    msg,          \* the rendered commit message, or Nil
    commits,      \* commit messages created by this run
    exitCode,     \* the process' exit status, -1 while it runs
    outText,      \* what the run printed last: [stream, text]
    reads,        \* number of reads of the cache file in this run
    writes,       \* number of write attempts on the cache file in this run
    fileAtStart,  \* the cache file as it was when the run started
    prompts,      \* the prompts shown so far in this run
    lastRun,      \* final values of the previous run if it committed, else Nil
    repoPath,     \* the repository whose cache file is loaded or saved
    disk          \* config files and cache files by path:
                  \* [configs, global, cacheDir, caches]

vars == <<doc, file, pc, stagedFiles, overrides, paramMap, c, idx, cfg, err,
          storedKeys, cur, inlineErr, vcall, overlayRejected, msg, commits,
          exitCode, outText,
          reads, writes, fileAtStart, prompts, lastRun, repoPath, disk>>

-----------------------------------------------------------------------------
(* Bounds of the model *)

\* longest text a user types into a Text prompt
MaxLen == 2
\* most entries of a configuration document
MaxEntries == 2
\* most staged files GetStagedFiles reports
MaxStaged == 1

-----------------------------------------------------------------------------
(* Strings *)

\* an error value: what kind, the string it names, the numbers it quotes
Err(kind, arg, want, got) == [kind |-> kind, arg |-> arg, want |-> want, got |-> got]
NoErr == Err("", "", 0, 0)
EmptyMap == <<>>

\* "e_acute" stands for a character whose UTF-8 encoding has two bytes
TypedChars == {"a", "e_acute"}
LowerAscii == {"a", "b", "c", "d", "e", "f", "g", "i", "n", "o", "r", "s",
               "t", "u", "x"}

ByteWidth(ch) == IF ch = "e_acute" THEN 2 ELSE 1

RECURSIVE ByteLen(_)
\* Go's len(s) of a string: its number of bytes
ByteLen(s) == IF s = <<>> THEN 0 ELSE ByteWidth(Head(s)) + ByteLen(Tail(s))

\* strings.ToLower, on the characters of the model
LowerChar(ch) ==
    CASE ch = "T" -> "t"
      [] ch = "R" -> "r"
      [] ch = "U" -> "u"
      [] ch = "E" -> "e"
      [] OTHER -> ch

ToLower(s) == [i \in 1..Len(s) |-> LowerChar(s[i])]

RECURSIVE Repeat(_, _)
\* strings.Repeat(ch, n)
Repeat(ch, n) == IF n <= 0 THEN <<>> ELSE <<ch>> \o Repeat(ch, n - 1)

SeqsUpTo(S, n) == UNION {[1..k -> S] : k \in 0..n}

sTrue == <<"t", "r", "u", "e">>
sFalse == <<"f", "a", "l", "s", "e">>
sTRUE == <<"T", "R", "U", "E">>
sOne == <<"1">>
sNo == <<"n", "o">>
sFeat == <<"f", "e", "a", "t">>
sFix == <<"f", "i", "x">>
sBogus == <<"b", "o", "g", "u", "s">>

-----------------------------------------------------------------------------
(* Maps with string keys (Go's map[string]string) *)

Has(m, k) == k \in DOMAIN m
\* m[k] of Go: the zero value "" when the key is missing
Get(m, k) == IF k \in DOMAIN m THEN m[k] ELSE <<>>
Put(m, k, v) == [x \in (DOMAIN m) \cup {k} |-> IF x = k THEN v ELSE m[x]]

-----------------------------------------------------------------------------
(* The configuration document: yaml nodes before UnmarshalYAML dispatches *)

\* patterns the documents use: none, an unanchored one, an anchored one and
\* one that regexp.Compile rejects
Patterns == {"", "a", "^[a-z]+$", "[a-z"}

\* regexp.Compile(pattern) returns an error
CompileFails(pattern) == pattern = "[a-z"

\* re.MatchString(value), for the patterns that compile
MatchString(pattern, value) ==
    CASE pattern = "a" -> \E i \in 1..Len(value) : value[i] = "a"
      [] pattern = "^[a-z]+$" ->
            Len(value) > 0 /\ \A i \in 1..Len(value) : value[i] \in LowerAscii
      [] OTHER -> FALSE

DocChoices ==
    << [Value |-> sFeat, Label |-> <<"n", "e", "w">>],
       [Value |-> sFix, Label |-> <<"b", "u", "g">>] >>

\* length limits and pattern of the Text nodes, with the default they carry
TextRules ==
    { [MinLength |-> 0, MaxLength |-> 0, Pattern |-> "", PatternHint |-> "",
       Default |-> <<"a">>],
      [MinLength |-> 1, MaxLength |-> 2, Pattern |-> "^[a-z]+$",
       PatternHint |-> "lower case letters", Default |-> <<>>],
      [MinLength |-> 0, MaxLength |-> 0, Pattern |-> "[a-z", PatternHint |-> "",
       Default |-> <<>>] }

TextNodes ==
    { [type |-> "Text", name |-> "header", minLength |-> r.MinLength,
       maxLength |-> r.MaxLength, multiLine |-> ml, pattern |-> r.Pattern,
       patternHint |-> r.PatternHint, default |-> r.Default, store |-> st] :
        r \in TextRules, st \in BOOLEAN, ml \in {FALSE} }

ChoiceNodes ==
    { [type |-> "Choice", name |-> "type", choices |-> DocChoices,
       default |-> sFeat, store |-> st, showValues |-> st] : st \in BOOLEAN }

BooleanNodes ==
    { [type |-> "Boolean", name |-> "breaking_change", default |-> d,
       store |-> st] : d \in BOOLEAN, st \in BOOLEAN }

\* nodes whose type is none of the three literals; "" is a missing type key
UnknownNodes == { [type |-> t, name |-> "other"] : t \in {"Weird", "text", ""} }

Nodes == TextNodes \cup ChoiceNodes \cup BooleanNodes \cup UnknownNodes

NodeNames(ns) == {ns[i].name : i \in 1..Len(ns)}

\* entry lists of at most MaxEntries nodes in which no two nodes share a name
EntryLists ==
    {ns \in SeqsUpTo(Nodes, MaxEntries) : Cardinality(NodeNames(ns)) = Len(ns)}

\* "conv" is the conventional-commit template of .commity.yaml, "bad" one
\* that text/template cannot parse, "execfail" one that parses and whose
\* execution fails ({{ .header.x }})
Templates == {"", "conv", "bad", "execfail"}

\* template and overview flag of the documents
DocShapes ==
    { [template |-> "conv", overview |-> TRUE],
      [template |-> "conv", overview |-> FALSE],
      [template |-> "bad", overview |-> FALSE],
      [template |-> "", overview |-> TRUE] }

NoDoc == [found |-> FALSE, entries |-> <<>>, template |-> "", overview |-> FALSE]

Docs ==
    { [found |-> TRUE, entries |-> ns, template |-> sh.template,
       overview |-> sh.overview] : ns \in EntryLists, sh \in DocShapes }

-----------------------------------------------------------------------------
(* internal/config: Configuration.UnmarshalYAML *)

NilConfig == [ok |-> FALSE, Entries |-> <<>>, Template |-> "", Overview |-> FALSE]

MaxOf(S) == IF S = {} THEN 0 ELSE CHOOSE m \in S : \A x \in S : x <= m

\* the label rewrite of a Choice entry with showValues
PadLabels(choices) ==
    LET maxValueLength == MaxOf({ByteLen(choices[i].Value) : i \in 1..Len(choices)})
    IN [i \in 1..Len(choices) |->
          [Value |-> choices[i].Value,
           Label |-> choices[i].Value
                     \o Repeat(" ", maxValueLength - ByteLen(choices[i].Value))
                     \o <<" ">> \o choices[i].Label]]

DecodeText(node) ==
    [type |-> "Text", Name |-> node.name, MinLength |-> node.minLength,
     MaxLength |-> node.maxLength, MultiLine |-> node.multiLine,
     Pattern |-> node.pattern, PatternHint |-> node.patternHint,
     Default |-> node.default,
     Value |-> node.default, Store |-> node.store]

DecodeChoice(node) ==
    [type |-> "Choice", Name |-> node.name,
     Choices |-> IF node.showValues THEN PadLabels(node.choices) ELSE node.choices,
     Default |-> node.default, Value |-> node.default, Store |-> node.store,
     ShowValues |-> node.showValues]

DecodeBoolean(node) ==
    [type |-> "Boolean", Name |-> node.name, Default |-> node.default,
     Value |-> node.default, Store |-> node.store]

KnownType(t) == t \in {"Text", "Choice", "Boolean"}

\* the switch on entryType.Type, for the three known literals
DecodeEntry(node) ==
    CASE node.type = "Text" -> DecodeText(node)
      [] node.type = "Choice" -> DecodeChoice(node)
      [] node.type = "Boolean" -> DecodeBoolean(node)

\* an error that does not name the type
UnknownTypeErrorNoName(t) == Err("unknown entry type: ", "", 0, 0)

UnknownTypeError(t) == Err("unknown entry type: ", t, 0, 0)

-----------------------------------------------------------------------------
(* cmd/commity: the per-repository cache file *)

\* yaml.Marshal writes the keys of a map in sorted order
KeyOrder == <<"breaking_change", "header", "other", "type">>

RECURSIVE MarshalFrom(_, _)
MarshalFrom(m, i) ==
    IF i > Len(KeyOrder) THEN <<>>
    ELSE (IF KeyOrder[i] \in DOMAIN m
          THEN <<[key |-> KeyOrder[i], value |-> m[KeyOrder[i]]]>>
          ELSE <<>>) \o MarshalFrom(m, i + 1)

\* yaml.Marshal(paramMap): the lines "key: value" of the document
Marshal(m) == MarshalFrom(m, 1)

\* yaml.Unmarshal(data, &pm) of a document of "key: value" lines
Unmarshal(lines) ==
    [k \in {lines[i].key : i \in 1..Len(lines)} |->
        (CHOOSE l \in {lines[i] : i \in 1..Len(lines)} : l.key = k).value]

NoFile == [kind |-> "missing", lines |-> <<>>]
YamlFile(lines) == [kind |-> "yaml", lines |-> lines]

\* a file that exists and os.ReadFile cannot read, and one whose content
\* yaml.Unmarshal rejects; the lines are what the file held before
UnreadableFile(lines) == [kind |-> "unreadable", lines |-> lines]
CorruptFile(lines) == [kind |-> "corrupt", lines |-> lines]

\* a load that decodes whatever lines the file has and reports no failure
loadParamMapIgnoringFailure(f) ==
    IF f.kind = "missing" THEN <<EmptyMap, FALSE>>
    ELSE <<Unmarshal(f.lines), FALSE>>

\* loadParamMapFromFile: <<map, failed>>
loadParamMapFromFile(f) ==
    IF f.kind = "missing" THEN <<EmptyMap, FALSE>>
    ELSE IF f.kind = "yaml" THEN <<Unmarshal(f.lines), FALSE>>
    ELSE <<EmptyMap, TRUE>>

\* saveParamMapToFile when MkdirAll and WriteFile succeed: the new file
saveParamMapToFile(m) == YamlFile(Marshal(m))

RECURSIVE StoredFrom(_, _, _)
StoredFrom(entries, i, acc) ==
    IF i > Len(entries) THEN acc
    ELSE StoredFrom(entries, i + 1, Put(acc, entries[i].Name, entries[i].Store))

\* a getStoredKeys that flags every entry
getStoredKeysAll(entries) == [n \in DOMAIN StoredFrom(entries, 1, EmptyMap) |-> TRUE]

\* getStoredKeys: entry name -> store flag
getStoredKeys(entries) == StoredFrom(entries, 1, EmptyMap)

\* a merge in which the file's value replaces the value already set
MergeStoredFileWins(pm, stored, fileParams) ==
    [k \in (DOMAIN pm) \cup {x \in DOMAIN stored :
                                stored[x] /\ x \in DOMAIN fileParams} |->
        IF k \in DOMAIN stored /\ stored[k] /\ k \in DOMAIN fileParams
        THEN fileParams[k] ELSE pm[k]]

\* a merge that takes an empty value already set for a value not set
MergeStoredEmptyIsUnset(pm, stored, fileParams) ==
    [k \in (DOMAIN pm) \cup {x \in DOMAIN stored :
                                stored[x] /\ x \in DOMAIN fileParams} |->
        IF k \in DOMAIN pm /\ ~(pm[k] = <<>> /\ k \in DOMAIN stored /\ stored[k]
                                /\ k \in DOMAIN fileParams)
        THEN pm[k] ELSE fileParams[k]]

\* restoreParamMap's merge of the loaded fileParams into paramMap
MergeStored(pm, stored, fileParams) ==
    [k \in (DOMAIN pm) \cup {x \in DOMAIN stored :
                                stored[x] /\ x \in DOMAIN fileParams} |->
        IF k \in DOMAIN pm THEN pm[k] ELSE fileParams[k]]

\* restoreParamMap: the merged paramMap
restoreParamMap(pm, stored, f) ==
    LET loaded == loadParamMapFromFile(f)
        fileParams == IF loaded[2] THEN EmptyMap ELSE loaded[1]
    IN MergeStored(pm, stored, fileParams)

\* a stored form that writes a Boolean as yes or no
StoredFormYesNo(e) ==
    IF e.type = "Boolean" THEN (IF e.Value THEN <<"y", "e", "s">> ELSE sNo)
    ELSE e.Value

\* the string updateParamMap stores for an entry
StoredForm(e) ==
    IF e.type = "Boolean" THEN (IF e.Value THEN sTrue ELSE sFalse) ELSE e.Value

RECURSIVE NewMapFrom(_, _, _, _)
NewMapFrom(entries, stored, i, acc) ==
    IF i > Len(entries) THEN acc
    ELSE NewMapFrom(entries, stored, i + 1,
            IF Has(stored, entries[i].Name) /\ stored[entries[i].Name]
            THEN Put(acc, entries[i].Name, StoredForm(entries[i]))
            ELSE acc)

\* an updateParamMap that adds to the map the file holds
updateParamMapKeepOld(entries, stored) ==
    NewMapFrom(entries, stored, 1, loadParamMapFromFile(file)[1])

\* the newMap updateParamMap builds from the entries
updateParamMap(entries, stored) == NewMapFrom(entries, stored, 1, EmptyMap)

-----------------------------------------------------------------------------
(* cmd/commity: seeding the fields and validating input *)

ChoiceValues(e) == {e.Choices[i].Value : i \in 1..Len(e.Choices)}

\* a Text seed that takes the overlay only if its length is within the limits
SeedTextWithinLimits(e, pm) ==
    IF Get(pm, e.Name) # <<>>
       /\ ByteLen(Get(pm, e.Name)) >= e.MinLength
       /\ (e.MaxLength <= 0 \/ ByteLen(Get(pm, e.Name)) <= e.MaxLength)
    THEN [e EXCEPT !.Value = Get(pm, e.Name)]
    ELSE e

SeedText(e, pm) ==
    IF Get(pm, e.Name) # <<>> THEN [e EXCEPT !.Value = Get(pm, e.Name)] ELSE e

\* a Choice seed that looks at the first option only
SeedChoiceFirstOption(e, pm) ==
    IF Get(pm, e.Name) # <<>> /\ Get(pm, e.Name) = e.Choices[1].Value
    THEN [e EXCEPT !.Value = Get(pm, e.Name)]
    ELSE e

SeedChoice(e, pm) ==
    IF Get(pm, e.Name) # <<>> /\ Get(pm, e.Name) \in ChoiceValues(e)
    THEN [e EXCEPT !.Value = Get(pm, e.Name)]
    ELSE e

\* a Boolean seed that compares with "true" as written
SeedBooleanExact(e, pm) ==
    IF Get(pm, e.Name) # <<>>
    THEN [e EXCEPT !.Value = (Get(pm, e.Name) = sTrue \/ Get(pm, e.Name) = sOne)]
    ELSE e

SeedBoolean(e, pm) ==
    IF Get(pm, e.Name) # <<>>
    THEN [e EXCEPT !.Value = (ToLower(Get(pm, e.Name)) = sTrue
                              \/ Get(pm, e.Name) = sOne)]
    ELSE e

\* one iteration of the loop over cfg.Entries that builds the form groups
SeedEntry(e, pm) ==
    CASE e.type = "Text" -> SeedText(e, pm)
      [] e.type = "Choice" -> SeedChoice(e, pm)
      [] e.type = "Boolean" -> SeedBoolean(e, pm)

SeedEntries(entries, pm) == [i \in 1..Len(entries) |-> SeedEntry(entries[i], pm)]

\* a validateInput that checks the lengths only
validateInputLengthsOnly(value, minLength, maxLength, pattern, patternHint) ==
    IF ByteLen(value) < minLength
    THEN Err("Input must be at least", "", minLength, ByteLen(value))
    ELSE IF maxLength > 0 /\ ByteLen(value) > maxLength
    THEN Err("Input must be at most", "", maxLength, ByteLen(value))
    ELSE NoErr

\* a validateInput that takes maxLength = 0 for a limit
validateInputZeroIsLimit(value, minLength, maxLength, pattern, patternHint) ==
    IF ByteLen(value) < minLength
    THEN Err("Input must be at least", "", minLength, ByteLen(value))
    ELSE IF ByteLen(value) > maxLength
    THEN Err("Input must be at most", "", maxLength, ByteLen(value))
    ELSE IF pattern # "" /\ (CompileFails(pattern) \/ ~MatchString(pattern, value))
    THEN Err("input does not match required pattern", pattern, 0, 0)
    ELSE NoErr

\* validateInput: NoErr when the value is accepted
validateInput(value, minLength, maxLength, pattern, patternHint) ==
    IF ByteLen(value) < minLength
    THEN Err("Input must be at least", "", minLength, ByteLen(value))
    ELSE IF maxLength > 0 /\ ByteLen(value) > maxLength
    THEN Err("Input must be at most", "", maxLength, ByteLen(value))
    ELSE IF pattern # ""
    THEN IF CompileFails(pattern)
         THEN Err("invalid pattern", pattern, 0, 0)
         ELSE IF ~MatchString(pattern, value)
         THEN Err("input does not match required pattern",
                  IF patternHint = "" THEN pattern ELSE patternHint, 0, 0)
         ELSE NoErr
    ELSE NoErr

\* the Validate callback of a Text entry's field
ValidateEntry(e, input) ==
    validateInput(input, e.MinLength, e.MaxLength, e.Pattern, e.PatternHint)

-----------------------------------------------------------------------------
(* internal/utils: RenderCommitMessage *)

StrVal(s) == [isBool |-> FALSE, s |-> s, b |-> FALSE]
BoolVal(b) == [isBool |-> TRUE, s |-> <<>>, b |-> b]

\* entry.GetValue()
GetValue(e) == IF e.type = "Boolean" THEN BoolVal(e.Value) ELSE StrVal(e.Value)

RECURSIVE VarsFrom(_, _, _)
VarsFrom(entries, i, acc) ==
    IF i > Len(entries) THEN acc
    ELSE VarsFrom(entries, i + 1, Put(acc, entries[i].Name, GetValue(entries[i])))

\* a vars map that takes the first three entries only
TemplateVarsFirstThree(entries) ==
    VarsFrom(SubSeq(entries, 1, IF Len(entries) < 3 THEN Len(entries) ELSE 3),
             1, EmptyMap)

\* a vars map in which the first entry of a name keeps its place
TemplateVarsFirstNamed(entries) ==
    LET Rev == [i \in 1..Len(entries) |-> entries[Len(entries) + 1 - i]]
    IN VarsFrom(Rev, 1, EmptyMap)

\* the vars map: entry name -> value, a later entry replacing an earlier one
TemplateVars(entries) == VarsFrom(entries, 1, EmptyMap)

sNoValue == <<"<", "n", "o", " ", "v", "a", "l", "u", "e", ">">>

\* {{ .name }}: how text/template prints the field of the map
Interpolate(tv, name) ==
    IF ~Has(tv, name) THEN sNoValue
    ELSE IF tv[name].isBool THEN (IF tv[name].b THEN sTrue ELSE sFalse)
    ELSE tv[name].s

\* {{ if .name }}: text/template's truth of the field of the map
Truthy(tv, name) ==
    Has(tv, name) /\ (IF tv[name].isBool THEN tv[name].b ELSE tv[name].s # <<>>)

\* an output that trims the blanks around the header
ExecuteConvTrimmed(tv) ==
    LET h == Interpolate(tv, "header")
        RECURSIVE TrimLeft(_)
        TrimLeft(x) == IF x # <<>> /\ Head(x) = " " THEN TrimLeft(Tail(x)) ELSE x
    IN Interpolate(tv, "type")
       \o (IF Truthy(tv, "breaking_change") THEN <<"!">> ELSE <<>>)
       \o <<":", " ">> \o TrimLeft(h)
       \o (IF Truthy(tv, "body") THEN <<"\n">> \o Interpolate(tv, "body") ELSE <<>>)

\* the output of the template "conv":
\* {{ .type }}{{ if .breaking_change }}!{{ end }}: {{ .header }}{{ if .body }}\n{{ .body }}{{ end }}
ExecuteConv(tv) ==
    Interpolate(tv, "type")
    \o (IF Truthy(tv, "breaking_change") THEN <<"!">> ELSE <<>>)
    \o <<":", " ">> \o Interpolate(tv, "header")
    \o (IF Truthy(tv, "body") THEN <<"\n">> \o Interpolate(tv, "body") ELSE <<>>)

\* RenderCommitMessage: [err, text]
RenderCommitMessage(config) ==
    IF config.Template = ""
    THEN [err |-> Err("template string is empty", "", 0, 0), text |-> <<>>]
    ELSE IF config.Template = "bad"
    THEN [err |-> Err("failed to parse template", "bad", 0, 0), text |-> <<>>]
    ELSE IF config.Template = "execfail"
    THEN [err |-> Err("failed to execute template", "execfail", 0, 0), text |-> <<>>]
    ELSE [err |-> NoErr, text |-> ExecuteConv(TemplateVars(config.Entries))]

-----------------------------------------------------------------------------
(* The environment of a run *)

FieldNames == {"header", "type", "breaking_change"}

\* values a -map flag or an older cache file gives a field
OverlayValues(name) ==
    CASE name = "header" -> {<<>>, <<"a", "b">>, <<"e_acute">>}
      [] name = "type" -> {<<>>, sFix, sBogus}
      [] name = "breaking_change" -> {<<>>, sTRUE, sOne, sNo}
      [] OTHER -> {<<>>}

\* most -map flags of an invocation
MaxFlags == 1

\* the maps main builds from the -map flags (ParamMap.Set), for the names
\* the document uses
OverrideMaps(d) ==
    UNION { {m \in [D -> UNION {OverlayValues(n) : n \in D}] :
                \A n \in D : m[n] \in OverlayValues(n)} :
            D \in {X \in SUBSET (FieldNames \cap NodeNames(d.entries)) :
                      Cardinality(X) <= MaxFlags} }

\* a cache file that runs under an earlier configuration left behind
LegacyMap ==
    [n \in FieldNames |->
        CASE n = "header" -> <<"a", "a">>
          [] n = "type" -> sFix
          [] n = "breaking_change" -> sTrue]

InitFiles == {NoFile, YamlFile(Marshal(LegacyMap))}

\* the specifications of one repository with one document and one cache file
\* (doc, file) name no path and keep nothing else on disk
NoPath == ""
NoDisk == [configs |-> <<>>, global |-> NoDoc, cacheDir |-> FALSE, caches |-> <<>>]

NoCall == [called |-> FALSE, value |-> <<>>, minLength |-> 0, maxLength |-> 0,
           pattern |-> "", patternHint |-> "", result |-> NoErr]
NoMsg == [ok |-> FALSE, text |-> <<>>]
NoOut == [stream |-> "", text |-> ""]
NoRun == [committed |-> FALSE, values |-> EmptyMap]

\* the state of a run when main calls runCommity
InitRun ==
    /\ pc = "FindGitRepository"
    /\ overrides = EmptyMap
    /\ paramMap = EmptyMap
    /\ stagedFiles = 0
    /\ c = NilConfig
    /\ idx = 0
    /\ cfg = NilConfig
    /\ err = NoErr
    /\ storedKeys = EmptyMap
    /\ cur = 0
    /\ inlineErr = NoErr
    /\ vcall = NoCall
    /\ overlayRejected = FALSE
    /\ msg = NoMsg
    /\ commits = <<>>
    /\ exitCode = -1
    /\ outText = NoOut
    /\ reads = 0
    /\ writes = 0
    /\ prompts = <<>>
    /\ repoPath = NoPath
    /\ disk = NoDisk

Init ==
    /\ doc \in Docs \cup {NoDoc}
    /\ file \in InitFiles
    /\ fileAtStart = file
    /\ lastRun = NoRun
    /\ InitRun

\* os.Exit(code) after printing text on stream
Exit(code, stream, text) ==
    /\ pc' = "exit"
    /\ exitCode' = code
    /\ outText' = [stream |-> stream, text |-> text]

-----------------------------------------------------------------------------
(* cmd/commity: runCommity, up to the form *)

FindGitRepository ==
    /\ pc = "FindGitRepository"
    /\ \/ /\ pc' = "GetStagedFiles"
          /\ UNCHANGED <<err, exitCode, outText>>
       \/ /\ err' = Err("no Git repository found", "", 0, 0)
          /\ Exit(1, "stderr", "Error findig git repository")
    /\ UNCHANGED <<doc, file, stagedFiles, overrides, paramMap, c, idx, cfg,
                  storedKeys, cur, inlineErr, vcall, overlayRejected, msg,
                  commits, reads, writes, fileAtStart, prompts, lastRun>>
    /\ UNCHANGED <<repoPath, disk>>

\* a count of staged files that lets the run go on when nothing is staged
GetStagedFilesZeroGoesOn ==
    /\ pc = "GetStagedFiles"
    /\ \/ /\ \E n \in 0..MaxStaged : stagedFiles' = n
          /\ pc' = "LoadConfig"
          /\ UNCHANGED <<err, exitCode, outText>>
       \/ /\ stagedFiles' = 0
          /\ err' = Err("failed to get Git status", "", 0, 0)
          /\ Exit(1, "stderr", "Error checking added files")
    /\ UNCHANGED <<doc, file, overrides, paramMap, c, idx, cfg, storedKeys,
                  cur, inlineErr, vcall, overlayRejected, msg, commits,
                  reads, writes, fileAtStart, prompts, lastRun>>
    /\ UNCHANGED <<repoPath, disk>>

GetStagedFiles ==
    /\ pc = "GetStagedFiles"
    /\ \/ /\ \E n \in 1..MaxStaged : stagedFiles' = n
          /\ pc' = "LoadConfig"
          /\ UNCHANGED <<err, exitCode, outText>>
       \/ /\ stagedFiles' = 0
          /\ err' = Err("failed to get Git status", "", 0, 0)
          /\ Exit(1, "stderr", "Error checking added files")
       \/ /\ stagedFiles' = 0
          /\ UNCHANGED err
          /\ Exit(1, "stderr", "Nothing to commit")
    /\ UNCHANGED <<doc, file, overrides, paramMap, c, idx, cfg, storedKeys,
                  cur, inlineErr, vcall, overlayRejected, msg, commits,
                  reads, writes, fileAtStart, prompts, lastRun>>
    /\ UNCHANGED <<repoPath, disk>>

\* LoadConfig finds no config file, or finds one and starts to decode it
LoadConfig ==
    /\ pc = "LoadConfig"
    /\ IF doc.found
       THEN /\ c' = [ok |-> FALSE, Entries |-> <<>>, Template |-> doc.template,
                     Overview |-> doc.overview]
            /\ idx' = 1
            /\ pc' = "UnmarshalYAML"
            /\ UNCHANGED <<err, exitCode, outText>>
       ELSE /\ err' = Err("no config file found", "", 0, 0)
            /\ Exit(1, "stderr", "Error loading configuration")
            /\ UNCHANGED <<c, idx>>
    /\ UNCHANGED <<doc, file, stagedFiles, overrides, paramMap, cfg,
                  storedKeys, cur, inlineErr, vcall, overlayRejected, msg,
                  commits, reads, writes, fileAtStart, prompts, lastRun>>
    /\ UNCHANGED <<repoPath, disk>>

\* one iteration of UnmarshalYAML's loop over raw.Entries
UnmarshalEntry ==
    /\ pc = "UnmarshalYAML"
    /\ idx <= Len(doc.entries)
    /\ IF KnownType(doc.entries[idx].type)
       THEN /\ c' = [c EXCEPT !.Entries = Append(@, DecodeEntry(doc.entries[idx]))]
            /\ idx' = idx + 1
            /\ UNCHANGED <<pc, err, exitCode, outText>>
       ELSE /\ err' = UnknownTypeError(doc.entries[idx].type)
            /\ Exit(1, "stderr", "Error loading configuration")
            /\ UNCHANGED <<c, idx>>
    /\ UNCHANGED <<doc, file, stagedFiles, overrides, paramMap, cfg,
                  storedKeys, cur, inlineErr, vcall, overlayRejected, msg,
                  commits, reads, writes, fileAtStart, prompts, lastRun>>
    /\ UNCHANGED <<repoPath, disk>>

\* UnmarshalYAML returns nil; ParseConfigFile and LoadConfig return the config
UnmarshalDone ==
    /\ pc = "UnmarshalYAML"
    /\ idx > Len(doc.entries)
    /\ cfg' = [c EXCEPT !.ok = TRUE]
    /\ pc' = "CheckConfig"
    /\ UNCHANGED <<doc, file, stagedFiles, overrides, paramMap, c, idx, err,
                  storedKeys, cur, inlineErr, vcall, overlayRejected, msg,
                  commits, exitCode, outText, reads, writes, fileAtStart,
                  prompts, lastRun>>
    /\ UNCHANGED <<repoPath, disk>>

\* a check that forgets the template
CheckConfigEntriesOnly ==
    /\ pc = "CheckConfig"
    /\ IF Len(cfg.Entries) = 0
       THEN Exit(1, "stderr", "Invalid configuration: no entries or template provided")
       ELSE /\ pc' = "restoreParamMap"
            /\ UNCHANGED <<exitCode, outText>>
    /\ UNCHANGED <<doc, file, stagedFiles, overrides, paramMap, c, idx, cfg,
                  err, storedKeys, cur, inlineErr, vcall, overlayRejected,
                  msg, commits, reads, writes, fileAtStart, prompts, lastRun>>
    /\ UNCHANGED <<repoPath, disk>>

CheckConfig ==
    /\ pc = "CheckConfig"
    /\ IF Len(cfg.Entries) = 0 \/ cfg.Template = ""
       THEN Exit(1, "stderr", "Invalid configuration: no entries or template provided")
       ELSE /\ pc' = "restoreParamMap"
            /\ UNCHANGED <<exitCode, outText>>
    /\ UNCHANGED <<doc, file, stagedFiles, overrides, paramMap, c, idx, cfg,
                  err, storedKeys, cur, inlineErr, vcall, overlayRejected,
                  msg, commits, reads, writes, fileAtStart, prompts, lastRun>>
    /\ UNCHANGED <<repoPath, disk>>

\* getStoredKeys, then restoreParamMap when there are stored keys.  The
\* paramMap argument, which main built from the -map flags, is first read
\* here: the model draws it here
RestoreParamMap ==
    /\ pc = "restoreParamMap"
    /\ storedKeys' = getStoredKeys(cfg.Entries)
    /\ \E ov \in OverrideMaps(doc) :
        /\ overrides' = ov
        /\ IF Cardinality(DOMAIN storedKeys') > 0
           THEN /\ paramMap' = restoreParamMap(ov, storedKeys', file)
                /\ reads' = reads + 1
           ELSE /\ paramMap' = ov
                /\ reads' = reads
    /\ pc' = "groups"
    /\ UNCHANGED <<doc, file, stagedFiles, c, idx, cfg, err, cur, inlineErr,
                  vcall, overlayRejected, msg, commits, exitCode, outText,
                  writes, fileAtStart, prompts, lastRun>>
    /\ UNCHANGED <<repoPath, disk>>

\* groups with the overview note after the entries
GroupsOverviewLast(config) ==
    [i \in 1..Len(config.Entries) |-> config.Entries[i].Name]
    \o (IF config.Overview THEN <<"overview">> ELSE <<>>)

\* the groups of the form: the overview note if any, then one per entry
Groups(config) ==
    (IF config.Overview THEN <<"overview">> ELSE <<>>)
    \o [i \in 1..Len(config.Entries) |-> config.Entries[i].Name]

\* the loop over cfg.Entries that seeds each entry and builds its group;
\* then huh.NewForm, and form.Run shows the first group
BuildGroups ==
    /\ pc = "groups"
    /\ cfg' = [cfg EXCEPT !.Entries = SeedEntries(cfg.Entries, paramMap)]
    /\ cur' = 1
    /\ prompts' = <<Groups(cfg)[1]>>
    /\ pc' = "form"
    /\ UNCHANGED <<doc, file, stagedFiles, overrides, paramMap, c, idx, err,
                  storedKeys, inlineErr, vcall, overlayRejected, msg,
                  commits, exitCode, outText, reads, writes, fileAtStart,
                  lastRun>>
    /\ UNCHANGED <<repoPath, disk>>

-----------------------------------------------------------------------------
(* cmd/commity: form.Run, one group per step *)

\* what a user types into a Text prompt
TextInputs == SeqsUpTo(TypedChars, MaxLen)

Offset == IF cfg.Overview THEN 1 ELSE 0
OnOverview == pc = "form" /\ cfg.Overview /\ cur = 1
OnEntry == pc = "form" /\ cur > Offset
Focused == cfg.Entries[cur - Offset]

\* the focused group is left: the next one is shown, or form.Run returns nil.
\* Nothing reads paramMap after the form: the model forgets it there
Advance ==
    /\ cur' = cur + 1
    /\ IF cur < Len(Groups(cfg))
       THEN /\ prompts' = Append(prompts, Groups(cfg)[cur + 1])
            /\ pc' = pc
            /\ UNCHANGED <<overrides, paramMap>>
       ELSE /\ prompts' = prompts
            /\ pc' = "RenderCommitMessage"
            /\ overrides' = EmptyMap
            /\ paramMap' = EmptyMap

\* the user leaves the overview note
NoteNext ==
    /\ OnOverview
    /\ Advance
    /\ UNCHANGED <<doc, file, stagedFiles, c, idx, cfg, err, storedKeys,
                  inlineErr, vcall, overlayRejected, msg, commits, exitCode,
                  outText, reads, writes, fileAtStart, lastRun>>
    /\ UNCHANGED <<repoPath, disk>>

\* the user edits the Text field to input and submits it: the field's
\* accessor holds the input, and the group is left only if Validate accepts it
TextSubmit ==
    /\ OnEntry
    /\ Focused.type = "Text"
    /\ \E input \in TextInputs \cup {Focused.Value} :
        LET result == ValidateEntry(Focused, input) IN
        /\ cfg' = [cfg EXCEPT !.Entries[cur - Offset].Value = input]
        /\ vcall' = [called |-> TRUE, value |-> input,
                     minLength |-> Focused.MinLength,
                     maxLength |-> Focused.MaxLength,
                     pattern |-> Focused.Pattern,
                     patternHint |-> Focused.PatternHint, result |-> result]
        /\ inlineErr' = result
        /\ overlayRejected' = (overlayRejected
                                \/ (result # NoErr /\ input # <<>>
                                    /\ input = Get(paramMap, Focused.Name)))
        /\ IF result = NoErr
           THEN Advance
           ELSE UNCHANGED <<pc, cur, prompts, overrides, paramMap>>
    /\ UNCHANGED <<doc, file, stagedFiles, c, idx, err, storedKeys, msg,
                  commits, exitCode, outText, reads, writes, fileAtStart,
                  lastRun>>
    /\ UNCHANGED <<repoPath, disk>>

\* the user selects an option of the Choice field and submits
ChoiceSubmit ==
    /\ OnEntry
    /\ Focused.type = "Choice"
    /\ \E v \in ChoiceValues(Focused) :
        cfg' = [cfg EXCEPT !.Entries[cur - Offset].Value = v]
    /\ Advance
    /\ UNCHANGED <<doc, file, stagedFiles, c, idx, err, storedKeys, inlineErr,
                  vcall, overlayRejected, msg, commits, exitCode, outText,
                  reads, writes, fileAtStart, lastRun>>
    /\ UNCHANGED <<repoPath, disk>>

\* the user answers the Boolean field and submits
ConfirmSubmit ==
    /\ OnEntry
    /\ Focused.type = "Boolean"
    /\ \E b \in BOOLEAN : cfg' = [cfg EXCEPT !.Entries[cur - Offset].Value = b]
    /\ Advance
    /\ UNCHANGED <<doc, file, stagedFiles, c, idx, err, storedKeys, inlineErr,
                  vcall, overlayRejected, msg, commits, exitCode, outText,
                  reads, writes, fileAtStart, lastRun>>
    /\ UNCHANGED <<repoPath, disk>>

\* a cancellation after which the run goes on with the values it has
CancelThenContinue ==
    /\ pc = "form"
    /\ pc' = "RenderCommitMessage"
    /\ outText' = [stream |-> "stdout", text |-> "Commit Canceled - Goodbye!"]
    /\ UNCHANGED <<doc, file, stagedFiles, overrides, paramMap, c, idx, cfg,
                  err, storedKeys, cur, inlineErr, vcall, overlayRejected,
                  msg, commits, exitCode, reads, writes, fileAtStart,
                  prompts, lastRun>>
    /\ UNCHANGED <<repoPath, disk>>

\* the user cancels: form.Run returns huh.ErrUserAborted
Cancel ==
    /\ pc = "form"
    /\ Exit(1, "stdout", "Commit Canceled - Goodbye!")
    /\ UNCHANGED <<doc, file, stagedFiles, overrides, paramMap, c, idx, cfg,
                  err, storedKeys, cur, inlineErr, vcall, overlayRejected,
                  msg, commits, reads, writes, fileAtStart, prompts, lastRun>>
    /\ UNCHANGED <<repoPath, disk>>

\* form.Run returns another error: the form cannot open the terminal
FormError ==
    /\ pc = "form"
    /\ cur = 1
    /\ ~vcall.called
    /\ err' = Err("form error", "", 0, 0)
    /\ Exit(1, "stderr", "Error running commity")
    /\ UNCHANGED <<doc, file, stagedFiles, overrides, paramMap, c, idx, cfg,
                  storedKeys, cur, inlineErr, vcall, overlayRejected, msg,
                  commits, reads, writes, fileAtStart, prompts, lastRun>>
    /\ UNCHANGED <<repoPath, disk>>

-----------------------------------------------------------------------------
(* cmd/commity: runCommity, after the form *)

\* a render whose failure is passed over: the run goes on to the commit
RenderFailurePassedOver ==
    /\ pc = "RenderCommitMessage"
    /\ LET r == RenderCommitMessage(cfg) IN
        /\ msg' = [ok |-> r.err = NoErr, text |-> r.text]
        /\ err' = r.err
        /\ pc' = "Commit"
    /\ UNCHANGED <<doc, file, stagedFiles, overrides, paramMap, c, idx, cfg,
                  storedKeys, cur, inlineErr, vcall, overlayRejected,
                  commits, exitCode, outText, reads, writes, fileAtStart,
                  prompts, lastRun>>
    /\ UNCHANGED <<repoPath, disk>>

Render ==
    /\ pc = "RenderCommitMessage"
    /\ LET r == RenderCommitMessage(cfg) IN
        IF r.err = NoErr
        THEN /\ msg' = [ok |-> TRUE, text |-> r.text]
             /\ pc' = "Commit"
             /\ UNCHANGED <<err, exitCode, outText>>
        ELSE /\ err' = r.err
             /\ Exit(1, "stderr", "Error rendering commit message")
             /\ UNCHANGED msg
    /\ UNCHANGED <<doc, file, stagedFiles, overrides, paramMap, c, idx, cfg,
                  storedKeys, cur, inlineErr, vcall, overlayRejected,
                  commits, reads, writes, fileAtStart, prompts, lastRun>>
    /\ UNCHANGED <<repoPath, disk>>

\* a commit whose failure is followed by a save of the map
CommitSavesOnFailure ==
    /\ pc = "Commit"
    /\ \/ /\ commits' = Append(commits, msg.text)
          /\ pc' = "updateParamMap"
          /\ UNCHANGED <<err, exitCode, outText, file, writes>>
       \/ /\ err' = Err("failed to create commit", "", 0, 0)
          /\ Exit(1, "stderr", "Error while doing commit")
          /\ file' = saveParamMapToFile(updateParamMap(cfg.Entries, storedKeys))
          /\ writes' = writes + 1
          /\ UNCHANGED commits
    /\ UNCHANGED <<doc, stagedFiles, overrides, paramMap, c, idx, cfg,
                  storedKeys, cur, inlineErr, vcall, overlayRejected, msg,
                  reads, fileAtStart, prompts, lastRun>>
    /\ UNCHANGED <<repoPath, disk>>

\* utils.Commit(repoPath, msg)
Commit ==
    /\ pc = "Commit"
    /\ \/ /\ commits' = Append(commits, msg.text)
          /\ pc' = "updateParamMap"
          /\ UNCHANGED <<err, exitCode, outText>>
       \/ /\ err' = Err("failed to create commit", "", 0, 0)
          /\ Exit(1, "stderr", "Error while doing commit")
          /\ UNCHANGED commits
    /\ UNCHANGED <<doc, file, stagedFiles, overrides, paramMap, c, idx, cfg,
                  storedKeys, cur, inlineErr, vcall, overlayRejected, msg,
                  reads, writes, fileAtStart, prompts, lastRun>>
    /\ UNCHANGED <<repoPath, disk>>

\* updateParamMap when there are stored keys, then the success message
UpdateParamMap ==
    /\ pc = "updateParamMap"
    /\ IF Cardinality(DOMAIN storedKeys) > 0
       THEN /\ file' = saveParamMapToFile(updateParamMap(cfg.Entries, storedKeys))
            /\ writes' = writes + 1
       ELSE UNCHANGED <<file, writes>>
    /\ Exit(0, "stdout", "Commit successful!")
    /\ UNCHANGED <<doc, stagedFiles, overrides, paramMap, c, idx, cfg, err,
                  storedKeys, cur, inlineErr, vcall, overlayRejected, msg,
                  commits, reads, fileAtStart, prompts, lastRun>>
    /\ UNCHANGED <<repoPath, disk>>

\* the final values of the store-flagged entries, by name
FinalValues(entries) ==
    [n \in {entries[i].Name : i \in {j \in 1..Len(entries) : entries[j].Store}} |->
        GetValue(entries[CHOOSE i \in 1..Len(entries) : entries[i].Name = n])]

\* main is invoked again for the same repository
NewRun ==
    /\ pc = "exit"
    /\ lastRun' = IF exitCode = 0
                  THEN [committed |-> TRUE, values |-> FinalValues(cfg.Entries)]
                  ELSE NoRun
    /\ fileAtStart' = file
    /\ overrides' = EmptyMap
    /\ paramMap' = EmptyMap
    /\ pc' = "FindGitRepository"
    /\ stagedFiles' = 0
    /\ c' = NilConfig
    /\ idx' = 0
    /\ cfg' = NilConfig
    /\ err' = NoErr
    /\ storedKeys' = EmptyMap
    /\ cur' = 0
    /\ inlineErr' = NoErr
    /\ vcall' = NoCall
    /\ overlayRejected' = FALSE
    /\ msg' = NoMsg
    /\ commits' = <<>>
    /\ exitCode' = -1
    /\ outText' = NoOut
    /\ reads' = 0
    /\ writes' = 0
    /\ prompts' = <<>>
    /\ UNCHANGED <<doc, file>>
    /\ UNCHANGED <<repoPath, disk>>

Next ==
    \/ FindGitRepository
    \/ GetStagedFiles
    \/ LoadConfig
    \/ UnmarshalEntry
    \/ UnmarshalDone
    \/ CheckConfig
    \/ RestoreParamMap
    \/ BuildGroups
    \/ NoteNext
    \/ TextSubmit
    \/ ChoiceSubmit
    \/ ConfirmSubmit
    \/ Cancel
    \/ FormError
    \/ Render
    \/ Commit
    \/ UpdateParamMap
    \/ NewRun

Spec == Init /\ [][Next]_vars

-----------------------------------------------------------------------------
(* Properties *)

\* the fields hold the values BuildGroups seeded: no field was submitted yet
Seeded == pc = "form" /\ cur <= 1 + Offset /\ ~vcall.called

\* the map the cache file held when the run started
Persisted == loadParamMapFromFile(fileAtStart)[1]

EntryIndexes == 1..Len(cfg.Entries)

\* the live value an overlay string s gives the entry e
Applied(e, s) ==
    CASE e.type = "Text" -> IF s = <<>> THEN e.Default ELSE s
      [] e.type = "Choice" ->
            IF s # <<>> /\ \E i \in 1..Len(e.Choices) : e.Choices[i].Value = s
            THEN s ELSE e.Default
      [] e.type = "Boolean" ->
            IF s = <<>> THEN e.Default ELSE (ToLower(s) = sTrue \/ s = sOne)

\* C1: every field is seeded by precedence: the override entry of its name
\* if there is one, else the persisted value if the field is store-flagged
\* and the cache file has one, else the schema default.
C1_Precedence ==
    Seeded =>
        \A i \in EntryIndexes :
            LET e == cfg.Entries[i] IN
            e.Value = IF Has(overrides, e.Name)
                      THEN Applied(e, overrides[e.Name])
                      ELSE IF e.Store /\ Has(Persisted, e.Name)
                      THEN Applied(e, Persisted[e.Name])
                      ELSE e.Default

\* a store-flagged field with an override and a persisted value that would
\* seed different values, seeded from the override
C1_Witness ==
    /\ Seeded
    /\ \E i \in EntryIndexes :
        LET e == cfg.Entries[i] IN
        /\ e.Store
        /\ Has(overrides, e.Name)
        /\ Has(Persisted, e.Name)
        /\ Applied(e, overrides[e.Name]) # Applied(e, Persisted[e.Name])
        /\ Applied(e, overrides[e.Name]) # e.Default
        /\ e.Value = Applied(e, overrides[e.Name])

\* C4: a field that is not store-flagged is seeded from the override map and
\* the schema default alone, whatever the cache file holds under its name.
C4_NoOverlayUnlessStored ==
    Seeded =>
        \A i \in EntryIndexes :
            LET e == cfg.Entries[i] IN
            ~e.Store =>
                e.Value = IF Has(overrides, e.Name)
                          THEN Applied(e, overrides[e.Name])
                          ELSE e.Default

\* a field that is not store-flagged, without override, whose name the cache
\* file maps to a value that would change it: it holds its default
C4_Witness ==
    /\ Seeded
    /\ reads = 1
    /\ \E i \in EntryIndexes :
        LET e == cfg.Entries[i] IN
        /\ ~e.Store
        /\ ~Has(overrides, e.Name)
        /\ Has(Persisted, e.Name)
        /\ Applied(e, Persisted[e.Name]) # e.Default
        /\ e.Value = e.Default

-----------------------------------------------------------------------------
(* validateInput alone, on inputs drawn from bounded sets *)

LengthArgs == -1..(MaxLen + 1)

InitValidate ==
    /\ doc = NoDoc
    /\ file = NoFile
    /\ fileAtStart = NoFile
    /\ lastRun = NoRun
    /\ overrides = EmptyMap
    /\ paramMap = EmptyMap
    /\ stagedFiles = 0
    /\ c = NilConfig
    /\ idx = 0
    /\ cfg = NilConfig
    /\ err = NoErr
    /\ storedKeys = EmptyMap
    /\ cur = 0
    /\ inlineErr = NoErr
    /\ overlayRejected = FALSE
    /\ msg = NoMsg
    /\ commits = <<>>
    /\ exitCode = -1
    /\ outText = NoOut
    /\ reads = 0
    /\ writes = 0
    /\ prompts = <<>>
    /\ pc = "validateInput"
    /\ vcall \in [called : {FALSE}, value : TextInputs, minLength : LengthArgs,
                  maxLength : LengthArgs, pattern : Patterns,
                  patternHint : {"", "lower case letters"}, result : {NoErr}]
    /\ repoPath = NoPath
    /\ disk = NoDisk

ValidateCall ==
    /\ pc = "validateInput"
    /\ vcall' = [vcall EXCEPT
                    !.called = TRUE,
                    !.result = validateInput(vcall.value, vcall.minLength,
                                             vcall.maxLength, vcall.pattern,
                                             vcall.patternHint)]
    /\ pc' = "returned"
    /\ UNCHANGED <<doc, file, stagedFiles, overrides, paramMap, c, idx, cfg,
                  err, storedKeys, cur, inlineErr, overlayRejected, msg,
                  commits, exitCode, outText, reads, writes, fileAtStart,
                  prompts, lastRun>>
    /\ UNCHANGED <<repoPath, disk>>

NextValidate == ValidateCall

SpecValidate == InitValidate /\ [][NextValidate]_vars

-----------------------------------------------------------------------------
(* Properties of the cache file across runs *)

StoredString(e) ==
    IF e.type = "Boolean" THEN (IF e.Value THEN sTrue ELSE sFalse) ELSE e.Value

StoredNames == {cfg.Entries[i].Name : i \in {j \in EntryIndexes : cfg.Entries[j].Store}}

\* the string form of the value v is not empty
NonEmptyValue(v) == v.isBool \/ v.s # <<>>

Succeeded == pc = "exit" /\ exitCode = 0

-----------------------------------------------------------------------------
(* Properties of the form *)

Cancelled == outText.text = "Commit Canceled - Goodbye!"

\* C5: the user can cancel at every group of the form, and a cancelled run is
\* at its exit with status 1: nothing was rendered or committed and the cache
\* file is as it was when the run started.
C5_CancelAborts ==
    /\ pc = "form" => ENABLED Cancel
    /\ Cancelled =>
        /\ pc = "exit"
        /\ exitCode = 1
        /\ ~msg.ok
        /\ commits = <<>>
        /\ writes = 0
        /\ file = fileAtStart

\* cancelled at the last of several groups, with a cache file and a
\* store-flagged field
C5_Witness ==
    /\ Cancelled
    /\ pc = "exit"
    /\ cur >= 2
    /\ cur = Len(Groups(cfg))
    /\ fileAtStart.kind = "yaml"
    /\ StoredNames # {}

\* the value of the Text entry meets the entry's limits and pattern
TextValid(e) ==
    /\ ByteLen(e.Value) >= e.MinLength
    /\ e.MaxLength <= 0 \/ ByteLen(e.Value) <= e.MaxLength
    /\ e.Pattern = "" \/ (~CompileFails(e.Pattern) /\ MatchString(e.Pattern, e.Value))

\* form.Run has returned nil
FormDone ==
    \/ pc \in {"RenderCommitMessage", "Commit", "updateParamMap"}
    \/ msg.ok
    \/ commits # <<>>
    \/ pc = "exit" /\ outText.text \in {"Error rendering commit message",
                                       "Error while doing commit",
                                       "Commit successful!"}

\* C6: the form is done only with every Text field's value valid, also when
\* the field was seeded with an override or persisted value.
C6_DoneOnlyIfValid ==
    FormDone =>
        \A i \in EntryIndexes :
            cfg.Entries[i].type = "Text" => TextValid(cfg.Entries[i])

\* the form is done after a Text field refused the overlay value it was
\* seeded with
C6_Witness ==
    /\ pc = "RenderCommitMessage"
    /\ overlayRejected
    /\ \E i \in EntryIndexes :
        cfg.Entries[i].type = "Text" /\ cfg.Entries[i].MinLength > 0

\* C8 as stated: a pattern that does not compile ends the run with a fatal
\* error; it is not shown as a validation message of the field.
C8_BrokenPatternIsFatal ==
    (vcall.called /\ vcall.result.kind = "invalid pattern") =>
        /\ pc = "exit"
        /\ exitCode # 0
        /\ outText.stream = "stderr"
        /\ inlineErr = NoErr

-----------------------------------------------------------------------------
(* Properties of loading the configuration *)

InvalidConfig == cfg.ok /\ (Len(cfg.Entries) = 0 \/ cfg.Template = "")

\* C9: a configuration without entries or without template is rejected with
\* status 1 before any prompt and before the cache file is read, and nothing
\* is committed or written.
C9_InvalidConfigRejected ==
    InvalidConfig =>
        /\ pc \in {"CheckConfig", "exit"}
        /\ prompts = <<>>
        /\ reads = 0
        /\ writes = 0
        /\ commits = <<>>
        /\ file = fileAtStart
        /\ pc = "exit" =>
            /\ exitCode = 1
            /\ outText.stream = "stderr"
            /\ outText.text = "Invalid configuration: no entries or template provided"

\* rejected for its empty template, with a store-flagged entry and a cache
\* file to read
C9_Witness ==
    /\ InvalidConfig
    /\ pc = "exit"
    /\ cfg.Template = ""
    /\ StoredNames # {}
    /\ fileAtStart.kind = "yaml"

ParseFailed == err.kind = "unknown entry type: "

-----------------------------------------------------------------------------
(* Properties of validateInput, under SpecValidate *)

Accepts ==
    /\ ByteLen(vcall.value) >= vcall.minLength
    /\ vcall.pattern = ""
        \/ (~CompileFails(vcall.pattern) /\ MatchString(vcall.pattern, vcall.value))

\* C7 as stated: validateInput returns no error exactly when the length is at
\* least minLength, maxLength is 0 or the length is at most maxLength, and
\* the pattern is empty or matches.
C7_ZeroIsUnbounded ==
    vcall.called =>
        (vcall.result = NoErr <=>
            /\ Accepts
            /\ vcall.maxLength = 0 \/ ByteLen(vcall.value) <= vcall.maxLength)

\* C7, amended: validateInput returns no error exactly when the length is at
\* least minLength, maxLength is at most 0 or the length is at most
\* maxLength, and the pattern is empty or matches.
C7_NonPositiveIsUnbounded ==
    vcall.called =>
        (vcall.result = NoErr <=>
            /\ Accepts
            /\ vcall.maxLength <= 0 \/ ByteLen(vcall.value) <= vcall.maxLength)

\* a value longer than one byte accepted with maxLength 0 and a pattern
C7_Witness ==
    /\ vcall.called
    /\ vcall.result = NoErr
    /\ vcall.maxLength = 0
    /\ vcall.minLength > 0
    /\ vcall.pattern # ""
    /\ ByteLen(vcall.value) > 1

-----------------------------------------------------------------------------
(* The seeding loop alone: one entry and the merged map it is seeded from *)

sMixedTrue == <<"T", "r", "u", "e">>
sNone == <<"n", "o", "n", "e">>

\* option lists, the second with an option whose value is the empty string
SeedChoiceLists ==
    {DocChoices, DocChoices \o << [Value |-> <<>>, Label |-> sNone] >>}

SeedNodes ==
    TextNodes \cup BooleanNodes
    \cup { [type |-> "Choice", name |-> "type", choices |-> ch, default |-> d,
            store |-> FALSE, showValues |-> FALSE] :
            ch \in SeedChoiceLists, d \in {sFeat, sFix} }

\* the strings paramMap holds under the entry's name
SeedOverlays ==
    {<<>>, sTrue, sTRUE, sMixedTrue, sOne, sFalse, sNo, sFeat, sFix, sBogus,
     <<"a", "b">>, <<"a", "a", "a">>, <<"e_acute">>}

InitSeed ==
    /\ doc = NoDoc
    /\ file = NoFile
    /\ fileAtStart = NoFile
    /\ lastRun = NoRun
    /\ overrides = EmptyMap
    /\ stagedFiles = 1
    /\ c = NilConfig
    /\ idx = 0
    /\ err = NoErr
    /\ storedKeys = EmptyMap
    /\ cur = 0
    /\ inlineErr = NoErr
    /\ vcall = NoCall
    /\ overlayRejected = FALSE
    /\ msg = NoMsg
    /\ commits = <<>>
    /\ exitCode = -1
    /\ outText = NoOut
    /\ reads = 0
    /\ writes = 0
    /\ prompts = <<>>
    /\ pc = "groups"
    /\ \E node \in SeedNodes :
        /\ cfg = [ok |-> TRUE, Entries |-> <<DecodeEntry(node)>>,
                  Template |-> "conv", Overview |-> FALSE]
        /\ paramMap \in {EmptyMap} \cup {[n \in {node.name} |-> s] : s \in SeedOverlays}
    /\ repoPath = NoPath
    /\ disk = NoDisk

NextSeed == BuildGroups

SpecSeed == InitSeed /\ [][NextSeed]_vars

-----------------------------------------------------------------------------
(* Properties of the seeding loop, under SpecSeed *)

\* the truth value the Boolean coercion gives the string s
CoercedTrue(s) == ToLower(s) = sTrue \/ s = sOne

\* the seeding raised no error: the form shows its first group
SeededWithoutError ==
    /\ pc = "form"
    /\ exitCode = -1
    /\ err = NoErr
    /\ inlineErr = NoErr

\* C11 as stated: a Boolean field whose name the map gives a string s is
\* true when s is "true" in any case or "1" and false for every other s,
\* whatever its default.
C11_EveryStringCoerced ==
    Seeded =>
        \A i \in EntryIndexes :
            LET e == cfg.Entries[i] IN
            (e.type = "Boolean" /\ Has(paramMap, e.Name)) =>
                e.Value = CoercedTrue(paramMap[e.Name])

\* C11, amended: a Boolean field whose name the map gives a non-empty string
\* s is true when s is "true" in any case or "1" and false for every other
\* non-empty s, whatever its default; the empty string leaves the default;
\* no s raises an error.
C11_NonEmptyStringCoerced ==
    Seeded =>
        \A i \in EntryIndexes :
            LET e == cfg.Entries[i] IN
            (e.type = "Boolean" /\ Has(paramMap, e.Name)) =>
                /\ e.Value = IF paramMap[e.Name] = <<>> THEN e.Default
                             ELSE CoercedTrue(paramMap[e.Name])
                /\ SeededWithoutError

\* a Boolean field with default false made true by "TRUE"
C11_Witness ==
    /\ Seeded
    /\ \E i \in EntryIndexes :
        LET e == cfg.Entries[i] IN
        /\ e.type = "Boolean"
        /\ Has(paramMap, e.Name)
        /\ paramMap[e.Name] = sTRUE
        /\ ~e.Default
        /\ e.Value

\* C12 as stated: a Choice field whose name the map gives a string s holds s
\* if and only if s is the value of one of its options; for every other s
\* it holds its default.
C12_OptionValueAccepted ==
    Seeded =>
        \A i \in EntryIndexes :
            LET e == cfg.Entries[i] IN
            (e.type = "Choice" /\ Has(paramMap, e.Name)) =>
                e.Value = IF \E k \in 1..Len(e.Choices) :
                                e.Choices[k].Value = paramMap[e.Name]
                          THEN paramMap[e.Name]
                          ELSE e.Default

\* C12, amended: a Choice field whose name the map gives a string s holds s
\* if and only if s is not empty and is the value of one of its options,
\* wherever the option stands; for every other s it holds its default, and
\* no error is raised.
C12_NonEmptyOptionValueAccepted ==
    Seeded =>
        \A i \in EntryIndexes :
            LET e == cfg.Entries[i] IN
            (e.type = "Choice" /\ Has(paramMap, e.Name)) =>
                /\ e.Value = IF /\ paramMap[e.Name] # <<>>
                                /\ \E k \in 1..Len(e.Choices) :
                                      e.Choices[k].Value = paramMap[e.Name]
                             THEN paramMap[e.Name]
                             ELSE e.Default
                /\ SeededWithoutError

\* a Choice field seeded with the value of its second option, which is not
\* its default
C12_Witness ==
    /\ Seeded
    /\ \E i \in EntryIndexes :
        LET e == cfg.Entries[i] IN
        /\ e.type = "Choice"
        /\ Has(paramMap, e.Name)
        /\ e.Choices[2].Value = paramMap[e.Name]
        /\ e.Default # paramMap[e.Name]
        /\ e.Value = paramMap[e.Name]

\* C13: a Text field whose name the map gives a non-empty string s holds s
\* unchanged, whether or not s meets the field's lengths and pattern, and no
\* error is raised.
C13_TextOverlayVerbatim ==
    Seeded =>
        \A i \in EntryIndexes :
            LET e == cfg.Entries[i] IN
            (e.type = "Text" /\ Get(paramMap, e.Name) # <<>>) =>
                /\ e.Value = paramMap[e.Name]
                /\ SeededWithoutError

\* a Text field seeded with a string longer than its maxLength
C13_Witness ==
    /\ Seeded
    /\ \E i \in EntryIndexes :
        LET e == cfg.Entries[i] IN
        /\ e.type = "Text"
        /\ e.MaxLength > 0
        /\ ByteLen(Get(paramMap, e.Name)) > e.MaxLength
        /\ e.Value = paramMap[e.Name]
        /\ e.Value # e.Default

-----------------------------------------------------------------------------
(* One run with a cache file that may fail to be read or written *)

FaultFiles ==
    InitFiles \cup {UnreadableFile(Marshal(LegacyMap)), CorruptFile(Marshal(LegacyMap))}

InitFaults ==
    /\ doc \in Docs \cup {NoDoc}
    /\ file \in FaultFiles
    /\ fileAtStart = file
    /\ lastRun = NoRun
    /\ InitRun

\* what a failed saveParamMapToFile leaves behind: the file as it was
\* (getCacheFilePath, MkdirAll or the open failed), an empty file (truncated,
\* nothing written) or a part of the new content
FailedWrite(f, m) == {f, YamlFile(<<>>), CorruptFile(Marshal(m))}

\* a failed save that ends the run with an error
UpdateParamMapFailsFatal ==
    /\ pc = "updateParamMap"
    /\ Cardinality(DOMAIN storedKeys) > 0
    /\ file' \in FailedWrite(file, updateParamMap(cfg.Entries, storedKeys))
    /\ writes' = writes + 1
    /\ err' = Err("Warning: failed to save parameter map", "", 0, 0)
    /\ Exit(1, "stderr", "Warning: failed to save parameter map")
    /\ UNCHANGED <<doc, stagedFiles, overrides, paramMap, c, idx, cfg,
                  storedKeys, cur, inlineErr, vcall, overlayRejected, msg,
                  commits, reads, fileAtStart, prompts, lastRun>>
    /\ UNCHANGED <<repoPath, disk>>

\* updateParamMap when saveParamMapToFile returns an error: the warning is
\* printed on stderr, then the success message
UpdateParamMapFails ==
    /\ pc = "updateParamMap"
    /\ Cardinality(DOMAIN storedKeys) > 0
    /\ file' \in FailedWrite(file, updateParamMap(cfg.Entries, storedKeys))
    /\ writes' = writes + 1
    /\ err' = Err("Warning: failed to save parameter map", "", 0, 0)
    /\ Exit(0, "stdout", "Commit successful!")
    /\ UNCHANGED <<doc, stagedFiles, overrides, paramMap, c, idx, cfg,
                  storedKeys, cur, inlineErr, vcall, overlayRejected, msg,
                  commits, reads, fileAtStart, prompts, lastRun>>
    /\ UNCHANGED <<repoPath, disk>>

NextFaults ==
    \/ FindGitRepository
    \/ GetStagedFiles
    \/ LoadConfig
    \/ UnmarshalEntry
    \/ UnmarshalDone
    \/ CheckConfig
    \/ RestoreParamMap
    \/ BuildGroups
    \/ NoteNext
    \/ TextSubmit
    \/ ChoiceSubmit
    \/ ConfirmSubmit
    \/ Cancel
    \/ FormError
    \/ Render
    \/ Commit
    \/ UpdateParamMap
    \/ UpdateParamMapFails

SpecFaults == InitFaults /\ [][NextFaults]_vars

-----------------------------------------------------------------------------
(* Properties of the cache file under faults, under SpecFaults *)

SaveFailed == err.kind = "Warning: failed to save parameter map"

\* C14: when the save of the map fails after the commit, the run ends with
\* status 0 and the success message; the commit made stays the only one, and
\* the save was tried once.
C14_SaveFailureIsWarning ==
    SaveFailed =>
        /\ pc = "exit"
        /\ exitCode = 0
        /\ outText = [stream |-> "stdout", text |-> "Commit successful!"]
        /\ msg.ok
        /\ commits = <<msg.text>>
        /\ writes = 1

\* a failed save that left the file other than it was
C14_Witness ==
    /\ SaveFailed
    /\ pc = "exit"
    /\ commits # <<>>
    /\ file # fileAtStart
    /\ fileAtStart.kind = "yaml"

\* C15: a missing file loads as the empty map without error; with a file that
\* cannot be read or parsed the run goes on, and every field is seeded from
\* its override or its default, as with an empty persisted map.
C15_UnreadableIsEmpty ==
    /\ fileAtStart.kind = "missing" =>
            loadParamMapFromFile(fileAtStart) = <<EmptyMap, FALSE>>
    /\ (fileAtStart.kind # "yaml" /\ pc \in {"groups", "form"}) =>
            /\ exitCode = -1
            /\ err = NoErr
            /\ paramMap = overrides
    /\ (fileAtStart.kind # "yaml" /\ Seeded) =>
            \A i \in EntryIndexes :
                LET e == cfg.Entries[i] IN
                e.Value = IF Has(overrides, e.Name)
                          THEN Applied(e, overrides[e.Name])
                          ELSE e.Default

\* a store-flagged field without override seeded with its default after the
\* read of a file that cannot be read, whose content would have changed it
C15_Witness ==
    /\ Seeded
    /\ fileAtStart.kind = "unreadable"
    /\ reads = 1
    /\ \E i \in EntryIndexes :
        LET e == cfg.Entries[i] IN
        /\ e.Store
        /\ ~Has(overrides, e.Name)
        /\ Has(Unmarshal(fileAtStart.lines), e.Name)
        /\ Applied(e, Unmarshal(fileAtStart.lines)[e.Name]) # e.Default
        /\ e.Value = e.Default

\* the run ended by cancellation, render failure or commit failure
EndedWithoutCommit ==
    /\ pc = "exit"
    /\ outText.text \in {"Commit Canceled - Goodbye!",
                         "Error rendering commit message",
                         "Error while doing commit"}

\* C16: in a run the file is read at most once, and never after a prompt was
\* shown; it is written at most once, and only with the commit made; a run
\* ended by cancellation, render failure or commit failure wrote nothing and
\* the file is as it was.
C16_ReadOnceWriteOnce ==
    /\ [](reads <= 1 /\ writes <= 1)
    /\ [](EndedWithoutCommit => writes = 0 /\ file = fileAtStart)
    /\ [][/\ reads' # reads => prompts = <<>>
          /\ writes' # writes => (Len(commits) = 1 /\ pc = "updateParamMap")
          /\ file' # file => writes' # writes]_vars

\* a run that read the file, showed every prompt and failed to commit
C16_Witness ==
    /\ pc = "exit"
    /\ outText.text = "Error while doing commit"
    /\ reads = 1
    /\ writes = 0
    /\ prompts # <<>>
    /\ fileAtStart.kind = "yaml"
    /\ StoredNames # {}

-----------------------------------------------------------------------------
(* The run from the end of the form on, for the four fields of .commity.yaml *)

BodyNode ==
    [type |-> "Text", name |-> "body", minLength |-> 0, maxLength |-> 0,
     multiLine |-> TRUE, pattern |-> "", patternHint |-> "", default |-> <<>>,
     store |-> FALSE]

\* the header entry, without the length limits of .commity.yaml, so that the
\* form can leave a short header
HeaderNode ==
    [type |-> "Text", name |-> "header", minLength |-> 0, maxLength |-> 0,
     multiLine |-> FALSE, pattern |-> "", patternHint |-> "", default |-> <<>>,
     store |-> FALSE]

TypeNode ==
    [type |-> "Choice", name |-> "type", choices |-> DocChoices,
     default |-> sFeat, store |-> TRUE, showValues |-> TRUE]

BreakingNode ==
    [type |-> "Boolean", name |-> "breaking_change", default |-> FALSE,
     store |-> TRUE]

\* the entries in the order of .commity.yaml, and in another order
RenderNodeLists ==
    { <<TypeNode, HeaderNode, BodyNode, BreakingNode>>,
      <<BodyNode, BreakingNode, HeaderNode, TypeNode>> }

\* the values the form can leave in the fields
TypeValues == {sFeat, sFix}
HeaderValues == {<<>>, <<"a">>, <<" ", "a", " ">>}
BodyValues == {<<>>, <<"a">>, <<" ">>, <<"a", "\n", "a">>}

\* the entry of the node with the value the form left in it
Answered(node, t, h, b, bc) ==
    CASE node.name = "type" -> [DecodeEntry(node) EXCEPT !.Value = t]
      [] node.name = "header" -> [DecodeEntry(node) EXCEPT !.Value = h]
      [] node.name = "body" -> [DecodeEntry(node) EXCEPT !.Value = b]
      [] node.name = "breaking_change" -> [DecodeEntry(node) EXCEPT !.Value = bc]

RenderTemplates == {"conv", "bad", "execfail"}

InitRender ==
    /\ \E ns \in RenderNodeLists, tpl \in RenderTemplates :
        /\ doc = [found |-> TRUE, entries |-> ns, template |-> tpl,
                  overview |-> FALSE]
        /\ \E t \in TypeValues, h \in HeaderValues, b \in BodyValues, bc \in BOOLEAN :
            cfg = [ok |-> TRUE,
                   Entries |-> [i \in 1..Len(ns) |-> Answered(ns[i], t, h, b, bc)],
                   Template |-> tpl, Overview |-> FALSE]
    /\ c = cfg
    /\ idx = Len(cfg.Entries) + 1
    /\ storedKeys = getStoredKeys(cfg.Entries)
    /\ prompts = Groups(cfg)
    /\ cur = Len(cfg.Entries) + 1
    /\ file = NoFile
    /\ fileAtStart = NoFile
    /\ lastRun = NoRun
    /\ overrides = EmptyMap
    /\ paramMap = EmptyMap
    /\ stagedFiles = 1
    /\ err = NoErr
    /\ inlineErr = NoErr
    /\ vcall = NoCall
    /\ overlayRejected = FALSE
    /\ msg = NoMsg
    /\ commits = <<>>
    /\ exitCode = -1
    /\ outText = NoOut
    /\ reads = 1
    /\ writes = 0
    /\ pc = "RenderCommitMessage"
    /\ repoPath = NoPath
    /\ disk = NoDisk

NextRender ==
    \/ Render
    \/ Commit
    \/ UpdateParamMap

SpecRender == InitRender /\ [][NextRender]_vars

-----------------------------------------------------------------------------
(* Properties of the render, under SpecRender *)

FailingTemplates == {"bad", "execfail"}

\* C17: when the render fails, by a parse error or an execution error, the
\* run ends at once with status 1 and the render error on stderr, nothing is
\* committed and the cache file is not written; a commit made carries the
\* string a successful render returned.
C17_RenderFailureIsFatal ==
    /\ (cfg.Template \in FailingTemplates /\ pc # "RenderCommitMessage") =>
            /\ pc = "exit"
            /\ exitCode = 1
            /\ outText = [stream |-> "stderr", text |-> "Error rendering commit message"]
            /\ err.kind = IF cfg.Template = "bad" THEN "failed to parse template"
                          ELSE "failed to execute template"
            /\ ~msg.ok
            /\ commits = <<>>
            /\ writes = 0
            /\ file = fileAtStart
    /\ commits # <<>> =>
            /\ msg.ok
            /\ commits = <<msg.text>>
            /\ cfg.Template \notin FailingTemplates

\* the run ended by an execution error after every prompt, with fields to
\* store
C17_Witness ==
    /\ pc = "exit"
    /\ cfg.Template = "execfail"
    /\ err.kind = "failed to execute template"
    /\ prompts = Groups(cfg)
    /\ StoredNames # {}
    /\ commits = <<>>

\* the value of the entry named n
ValueOf(n) ==
    cfg.Entries[CHOOSE i \in EntryIndexes : cfg.Entries[i].Name = n].Value

\* C18: for the conventional template and all values of type,
\* breaking_change, header and body, the render returns type, "!" exactly
\* when breaking_change is true, ": ", header, and a newline and body exactly
\* when body is not empty, with no blank removed or added.
C18_ConventionalOutput ==
    (msg.ok /\ cfg.Template = "conv") =>
        msg.text = ValueOf("type")
                   \o (IF ValueOf("breaking_change") THEN <<"!">> ELSE <<>>)
                   \o <<":", " ">>
                   \o ValueOf("header")
                   \o (IF ValueOf("body") # <<>>
                       THEN <<"\n">> \o ValueOf("body") ELSE <<>>)

\* a breaking fix with blanks around the header and a blank body
C18_Witness ==
    /\ msg.ok
    /\ cfg.Template = "conv"
    /\ ValueOf("breaking_change")
    /\ msg.text = <<"f", "i", "x", "!", ":", " ", " ", "a", " ", "\n", " ">>

\* the configuration with its entries in the order p and the store flags
\* inverted: the same template, field names and values
Rearranged(p) ==
    [cfg EXCEPT !.Entries =
        [i \in EntryIndexes |-> [cfg.Entries[p[i]] EXCEPT !.Store = ~@]]]

-----------------------------------------------------------------------------
(* Properties of the prompt sequence, under Spec *)

\* the overview step if the document asks for it, then the entries of the
\* document in their order
ExpectedPrompts ==
    (IF doc.overview THEN <<"overview">> ELSE <<>>)
    \o [i \in 1..Len(doc.entries) |-> doc.entries[i].name]

-----------------------------------------------------------------------------
(* Properties of the exit status, under Spec *)

\* the status of os.Exit after an error message
FatalExitCode == 1

\* the run ended with an error message on stderr
FatalExit == pc = "exit" /\ outText.stream = "stderr"

\* C21 as stated: a run ended by cancellation exits with a status other than
\* that of the fatal failures, and its message is not on the error stream.
C21_CancelCodeDistinct ==
    (pc = "exit" /\ Cancelled) =>
        /\ exitCode # FatalExitCode
        /\ outText.stream # "stderr"

-----------------------------------------------------------------------------
(* The cache files by repository path: loadParamMapFromFile and            *)
(* saveParamMapToFile with their repoPath argument                         *)

RepoPaths == {"/a", "/b"}

\* md5.Sum([]byte(repoPath)): the model takes the digests of different paths
\* to differ
Md5(path) == [md5 |-> path]

\* a cache path that does not depend on the repository
getCacheFilePathShared(path) == [dir |-> "cache", name |-> Md5("")]

\* getCacheFilePath: <data dir>/cache/<md5 of repoPath>.yaml
getCacheFilePath(path) == [dir |-> "cache", name |-> Md5(path)]

CachePaths == {getCacheFilePath(p) : p \in RepoPaths}

\* os.ReadFile(cacheFile) and the decoding, on the disk d
loadParamMapFromPath(d, path) ==
    loadParamMapFromFile(IF d.cacheDir THEN d.caches[getCacheFilePath(path)]
                         ELSE NoFile)

\* a save that does not create the cache directory: WriteFile fails without it
saveParamMapNoMkdir(d, m, path) ==
    IF d.cacheDir
    THEN [d EXCEPT !.caches[getCacheFilePath(path)] = saveParamMapToFile(m)]
    ELSE d

\* os.MkdirAll(cacheDir), yaml.Marshal and os.WriteFile(cacheFile), on the
\* disk d
saveParamMapToPath(d, m, path) ==
    [d EXCEPT !.cacheDir = TRUE,
              !.caches[getCacheFilePath(path)] = saveParamMapToFile(m)]

\* the maps updateParamMap saves
StoreValues(k) ==
    CASE k = "header" -> {<<>>, <<"a">>}
      [] k = "type" -> {sFix}
      [] k = "breaking_change" -> {sTrue, sFalse}

StoreMaps ==
    UNION { {m \in [D -> UNION {StoreValues(k) : k \in D}] :
                \A k \in D : m[k] \in StoreValues(k)} :
            D \in SUBSET {"header", "type", "breaking_change"} }

\* what a cache file is before the calls
StoreFiles == {NoFile, YamlFile(Marshal(LegacyMap)), CorruptFile(Marshal(LegacyMap))}

InitStore ==
    /\ doc = NoDoc
    /\ file = NoFile
    /\ fileAtStart = NoFile
    /\ lastRun = NoRun
    /\ overrides = EmptyMap
    /\ paramMap = EmptyMap
    /\ stagedFiles = 0
    /\ c = NilConfig
    /\ idx = 0
    /\ cfg = NilConfig
    /\ err = NoErr
    /\ storedKeys = EmptyMap
    /\ cur = 0
    /\ inlineErr = NoErr
    /\ vcall = NoCall
    /\ overlayRejected = FALSE
    /\ msg = NoMsg
    /\ commits = <<>>
    /\ exitCode = -1
    /\ outText = NoOut
    /\ reads = 0
    /\ writes = 0
    /\ prompts = <<>>
    /\ pc = "idle"
    /\ repoPath = NoPath
    /\ \E dir \in BOOLEAN, fs \in [CachePaths -> StoreFiles] :
        /\ ~dir => \A n \in CachePaths : fs[n] = NoFile
        /\ disk = [configs |-> <<>>, global |-> NoDoc, cacheDir |-> dir,
                   caches |-> fs]

\* what is at the cache path of the repository on the disk d
FileAtPath(d, path) ==
    IF d.cacheDir THEN d.caches[getCacheFilePath(path)]
    ELSE [kind |-> "nodir", lines |-> <<>>]

\* saveParamMapToFile(paramMap, repoPath); paramMap keeps the map saved and
\* fileAtStart what was at the path before
SaveCall ==
    /\ pc = "idle"
    /\ \E path \in RepoPaths, m \in StoreMaps :
        /\ repoPath' = path
        /\ paramMap' = m
        /\ fileAtStart' = FileAtPath(disk, path)
        /\ disk' = saveParamMapToPath(disk, m, path)
    /\ writes' = writes + 1
    /\ pc' = "saved"
    /\ UNCHANGED <<doc, file, stagedFiles, overrides, c, idx, cfg, err,
                  storedKeys, cur, inlineErr, vcall, overlayRejected, msg,
                  commits, exitCode, outText, reads, prompts, lastRun>>

\* loadParamMapFromFile(repoPath); overrides keeps the map returned
LoadCall ==
    /\ pc \in {"idle", "saved"}
    /\ \E path \in RepoPaths :
        LET loaded == loadParamMapFromPath(disk, path) IN
        /\ repoPath' = path
        /\ overrides' = loaded[1]
        /\ err' = IF loaded[2] THEN Err("load failed", "", 0, 0) ELSE NoErr
    /\ reads' = reads + 1
    /\ pc' = "loaded"
    /\ UNCHANGED <<doc, file, stagedFiles, paramMap, c, idx, cfg, storedKeys,
                  cur, inlineErr, vcall, overlayRejected, msg, commits,
                  exitCode, outText, writes, fileAtStart, prompts, lastRun,
                  disk>>

NextStore ==
    \/ SaveCall
    \/ LoadCall

SpecStore == InitStore /\ [][NextStore]_vars

-----------------------------------------------------------------------------
(* Properties of the cache files, under SpecStore *)

-----------------------------------------------------------------------------
(* utils.LoadConfig: the lookup of the config file, then the run up to the *)
(* form                                                                    *)

\* most directories from the target directory up to the root
MaxDepth == 3

\* config files that can be told apart, the last with an entry of unknown
\* type
LookupDocs ==
    { [found |-> TRUE, entries |-> <<TypeNode>>, template |-> "conv",
       overview |-> FALSE],
      [found |-> TRUE, entries |-> <<HeaderNode>>, template |-> "conv",
       overview |-> TRUE],
      [found |-> TRUE, entries |-> <<BreakingNode, [type |-> "Weird", name |-> "other"]>>,
       template |-> "conv", overview |-> FALSE] }

\* a walk that goes on to the root and takes the last config file it finds
WalkUpToLast(configs, i) ==
    LET S == {k \in i..Len(configs) : configs[k].found}
    IN IF S = {} THEN NoDoc
       ELSE configs[CHOOSE k \in S : \A j \in S : j <= k]

RECURSIVE WalkUp(_, _)
\* the loop of LoadConfig: configs[i] is .commity.yaml of the i-th directory
\* from the directory LoadConfig is called with (the repository path)
\* upward, NoDoc where os.Stat fails
WalkUp(configs, i) ==
    IF i > Len(configs) THEN NoDoc
    ELSE IF configs[i].found THEN configs[i]
    ELSE WalkUp(configs, i + 1)

\* the file LoadConfig hands to ParseConfigFile, or NoDoc
LocatedConfig(d) ==
    IF WalkUp(d.configs, 1).found THEN WalkUp(d.configs, 1) ELSE d.global

InitLookup ==
    /\ doc = NoDoc
    /\ file = NoFile
    /\ fileAtStart = NoFile
    /\ lastRun = NoRun
    /\ overrides = EmptyMap
    /\ paramMap = EmptyMap
    /\ stagedFiles = 1
    /\ c = NilConfig
    /\ idx = 0
    /\ cfg = NilConfig
    /\ err = NoErr
    /\ storedKeys = EmptyMap
    /\ cur = 0
    /\ inlineErr = NoErr
    /\ vcall = NoCall
    /\ overlayRejected = FALSE
    /\ msg = NoMsg
    /\ commits = <<>>
    /\ exitCode = -1
    /\ outText = NoOut
    /\ reads = 0
    /\ writes = 0
    /\ prompts = <<>>
    /\ pc = "LocateConfig"
    /\ repoPath = "/a"
    /\ \E chain \in UNION {[1..n -> LookupDocs \cup {NoDoc}] : n \in 1..MaxDepth},
          g \in LookupDocs \cup {NoDoc} :
        disk = [configs |-> chain, global |-> g, cacheDir |-> FALSE,
                caches |-> <<>>]

\* the first part of LoadConfig: the walk upward and the fallback
LocateConfig ==
    /\ pc = "LocateConfig"
    /\ doc' = LocatedConfig(disk)
    /\ pc' = "LoadConfig"
    /\ UNCHANGED <<file, stagedFiles, overrides, paramMap, c, idx, cfg, err,
                  storedKeys, cur, inlineErr, vcall, overlayRejected, msg,
                  commits, exitCode, outText, reads, writes, fileAtStart,
                  prompts, lastRun, repoPath, disk>>

NextLookup ==
    \/ LocateConfig
    \/ LoadConfig
    \/ UnmarshalEntry
    \/ UnmarshalDone
    \/ CheckConfig
    \/ RestoreParamMap
    \/ BuildGroups

SpecLookup == InitLookup /\ [][NextLookup]_vars

-----------------------------------------------------------------------------
(* Properties of the config lookup, under SpecLookup *)

\* the directories, counted from the target directory, that have a config
\* file
WithConfig == {i \in 1..Len(disk.configs) : disk.configs[i].found}

Nearest == CHOOSE i \in WithConfig : \A j \in WithConfig : i <= j

\* C24: the config file used is that of the nearest directory, from the
\* target directory upward, that has one; the global config file only when
\* no directory has one; and when there is none the run ends with an error
\* before any prompt.
C24_NearestConfigWins ==
    pc # "LocateConfig" =>
        /\ doc = IF WithConfig # {} THEN disk.configs[Nearest] ELSE disk.global
        /\ (cfg.ok \/ c.ok) => cfg.Template = doc.template
        /\ prompts # <<>> =>
                /\ cfg.ok
                /\ Len(cfg.Entries) = Len(doc.entries)
                /\ \A i \in 1..Len(doc.entries) : cfg.Entries[i].Name = doc.entries[i].name
        /\ (~doc.found /\ pc # "LoadConfig") =>
                /\ pc = "exit"
                /\ exitCode = 1
                /\ outText = [stream |-> "stderr", text |-> "Error loading configuration"]
                /\ err.kind = "no config file found"
                /\ prompts = <<>>

\* the form of the config file of the parent directory, with another one
\* farther up and a global one
C24_Witness ==
    /\ pc = "form"
    /\ prompts # <<>>
    /\ Len(disk.configs) = 3
    /\ ~disk.configs[1].found
    /\ disk.configs[2].found
    /\ disk.configs[3].found
    /\ disk.global.found
    /\ disk.configs[3] # disk.configs[2]
    /\ disk.global # disk.configs[2]
    /\ doc = disk.configs[2]

-----------------------------------------------------------------------------
(* UnmarshalYAML on Choice entries with and without showValues, then the   *)
(* run up to the rendered message                                          *)

\* option values of one to three bytes, one of them a single two-byte
\* character
ShowValueValues == {sFix, <<"a", "b">>, <<"a">>, <<"e_acute">>}

ShowValueLabels == << <<"n", "e", "w">>, <<"b", "u", "g">> >>

ShowValueChoiceLists ==
    { [k \in 1..n |-> [Value |-> vs[k], Label |-> ShowValueLabels[k]]] :
        n \in 1..2, vs \in [1..2 -> ShowValueValues] }

ShowValueDocs ==
    { [found |-> TRUE,
       entries |-> << [type |-> "Choice", name |-> "type", choices |-> cs,
                       default |-> cs[1].Value, store |-> FALSE,
                       showValues |-> sv] >>,
       template |-> "conv", overview |-> FALSE] :
        cs \in ShowValueChoiceLists, sv \in BOOLEAN }

InitShowValues ==
    /\ doc \in ShowValueDocs
    /\ overrides \in {EmptyMap, [n \in {"type"} |-> sFix]}
    /\ file = NoFile
    /\ fileAtStart = NoFile
    /\ lastRun = NoRun
    /\ paramMap = EmptyMap
    /\ stagedFiles = 1
    /\ c = NilConfig
    /\ idx = 0
    /\ cfg = NilConfig
    /\ err = NoErr
    /\ storedKeys = EmptyMap
    /\ cur = 0
    /\ inlineErr = NoErr
    /\ vcall = NoCall
    /\ overlayRejected = FALSE
    /\ msg = NoMsg
    /\ commits = <<>>
    /\ exitCode = -1
    /\ outText = NoOut
    /\ reads = 0
    /\ writes = 0
    /\ prompts = <<>>
    /\ pc = "LoadConfig"
    /\ repoPath = NoPath
    /\ disk = NoDisk

NextShowValues ==
    \/ LoadConfig
    \/ UnmarshalEntry
    \/ UnmarshalDone
    \/ CheckConfig
    \/ RestoreParamMap
    \/ BuildGroups
    \/ ChoiceSubmit
    \/ Render

SpecShowValues == InitShowValues /\ [][NextShowValues]_vars

-----------------------------------------------------------------------------
(* Properties of the option labels, under SpecShowValues *)

\* the entries UnmarshalYAML has decoded so far
Decoded == IF cfg.ok THEN cfg.Entries ELSE c.Entries

\* the number of characters of the widest option value
WidestValue(choices) == MaxOf({Len(choices[k].Value) : k \in 1..Len(choices)})

\* the label of option k of a node, rewritten to a column of width w
\* measured by len
Column(node, k, w, len(_)) ==
    node.choices[k].Value \o Repeat(" ", w - len(node.choices[k].Value))
        \o <<" ">> \o node.choices[k].Label

\* options of the decoded entry i against the node it was decoded from
OptionsKept(i) ==
    /\ Len(Decoded[i].Choices) = Len(doc.entries[i].choices)
    /\ Decoded[i].Default = doc.entries[i].default
    /\ \A k \in 1..Len(Decoded[i].Choices) :
        Decoded[i].Choices[k].Value = doc.entries[i].choices[k].Value

\* C25: at every moment after parsing (merge, prompt and render included)
\* each option of a Choice entry with showValues has the label
\* value, spaces up to the width of the widest option value, one space,
\* original label, and without showValues the label of the document; option
\* values, their order and the default are those of the document.
C25_LabelsPaddedToWidest ==
    \A i \in 1..Len(Decoded) :
        /\ OptionsKept(i)
        /\ \A k \in 1..Len(Decoded[i].Choices) :
            Decoded[i].Choices[k].Label =
                IF doc.entries[i].showValues
                THEN Column(doc.entries[i], k, WidestValue(doc.entries[i].choices), Len)
                ELSE doc.entries[i].choices[k].Label

\* what the code does instead: the column is as wide as the option value
\* with the most bytes, and the padding of a value is the number of bytes it
\* falls short of that
LabelsPaddedByBytes ==
    \A i \in 1..Len(Decoded) :
        /\ OptionsKept(i)
        /\ \A k \in 1..Len(Decoded[i].Choices) :
            Decoded[i].Choices[k].Label =
                IF doc.entries[i].showValues
                THEN Column(doc.entries[i], k,
                            MaxOf({ByteLen(doc.entries[i].choices[n].Value) :
                                     n \in 1..Len(doc.entries[i].choices)}),
                            ByteLen)
                ELSE doc.entries[i].choices[k].Label

\* a rendered message of a showValues entry whose values are all ASCII
LabelsPaddedReached ==
    /\ msg.ok
    /\ doc.entries[1].showValues
    /\ doc.entries[1].choices[1].Value = <<"a">>
    /\ Len(doc.entries[1].choices) = 2
    /\ doc.entries[1].choices[2].Value = sFix
    /\ cfg.Entries[1].Choices[1].Label = <<"a", " ", " ", " ", "n", "e", "w">>

-----------------------------------------------------------------------------
(* Properties of the empty overlay value, under Spec *)

\* C26: a field whose merged overlay value is the empty string is seeded
\* with its schema default, whatever its type; and a field whose explicit
\* override is the empty string is seeded with its schema default even when
\* it is store-flagged and the cache file holds a value for its name.
C26_EmptyOverrideBlocksPersisted ==
    Seeded =>
        \A i \in EntryIndexes :
            LET e == cfg.Entries[i] IN
            /\ (Has(paramMap, e.Name) /\ paramMap[e.Name] = <<>>) =>
                    e.Value = e.Default
            /\ (Has(overrides, e.Name) /\ overrides[e.Name] = <<>>) =>
                    /\ Has(paramMap, e.Name)
                    /\ paramMap[e.Name] = <<>>
                    /\ e.Value = e.Default

\* a store-flagged field with an empty override and a persisted value that
\* would have seeded another value than the default
C26_Witness ==
    /\ Seeded
    /\ \E i \in EntryIndexes :
        LET e == cfg.Entries[i] IN
        /\ e.Store
        /\ Has(overrides, e.Name)
        /\ overrides[e.Name] = <<>>
        /\ Has(Persisted, e.Name)
        /\ Persisted[e.Name] # <<>>
        /\ Applied(e, Persisted[e.Name]) # e.Default
        /\ e.Value = e.Default

-----------------------------------------------------------------------------
(* A run whose configuration names two entries "header" *)

\* Text entries named header, without limits
DupTextNodes ==
    { [type |-> "Text", name |-> "header", minLength |-> 0, maxLength |-> 0,
       multiLine |-> FALSE, pattern |-> "", patternHint |-> "",
       default |-> d, store |-> st] : d \in {<<>>, <<"a">>}, st \in BOOLEAN }

\* the two entries next to each other, and with the type entry between them
DupEntryLists ==
    { <<t1, t2>> : t1 \in DupTextNodes, t2 \in DupTextNodes }
    \cup { <<t1, [TypeNode EXCEPT !.store = FALSE], t2>> :
             t1 \in DupTextNodes, t2 \in DupTextNodes }

InitDup ==
    /\ \E ns \in DupEntryLists :
        doc = [found |-> TRUE, entries |-> ns, template |-> "conv",
               overview |-> FALSE]
    /\ file \in InitFiles
    /\ fileAtStart = file
    /\ lastRun = NoRun
    /\ overrides = EmptyMap
    /\ paramMap = EmptyMap
    /\ stagedFiles = 1
    /\ c = NilConfig
    /\ idx = 0
    /\ cfg = NilConfig
    /\ err = NoErr
    /\ storedKeys = EmptyMap
    /\ cur = 0
    /\ inlineErr = NoErr
    /\ vcall = NoCall
    /\ overlayRejected = FALSE
    /\ msg = NoMsg
    /\ commits = <<>>
    /\ exitCode = -1
    /\ outText = NoOut
    /\ reads = 0
    /\ writes = 0
    /\ prompts = <<>>
    /\ pc = "LoadConfig"
    /\ repoPath = NoPath
    /\ disk = NoDisk

NextDup ==
    \/ LoadConfig
    \/ UnmarshalEntry
    \/ UnmarshalDone
    \/ CheckConfig
    \/ RestoreParamMap
    \/ BuildGroups
    \/ TextSubmit
    \/ ChoiceSubmit
    \/ Render
    \/ Commit
    \/ UpdateParamMap

SpecDup == InitDup /\ [][NextDup]_vars

-----------------------------------------------------------------------------
(* Properties of entries that share a name, under SpecDup *)

\* the entries named header, in document order
Headers == {i \in EntryIndexes : cfg.Entries[i].Name = "header"}
FirstHeader == CHOOSE i \in Headers : \A j \in Headers : i <= j
LastHeader == CHOOSE i \in Headers : \A j \in Headers : j <= i

\* the map the cache file holds now
Written == loadParamMapFromFile(file)[1]

\* C27: a configuration with two entries of one name is parsed and run
\* without a validation error; both entries are prompted; an overlay for the
\* name seeds both; the rendered message and the written cache file hold,
\* under the name, the value of the last of them (the cache file when the
\* store flag kept for the name, that of the last entry, is set).
C27_LastDuplicateWins ==
    /\ pc = "exit" => err.kind \in {"", "failed to create commit"}
    /\ cfg.ok => Cardinality(Headers) = 2
    /\ Seeded =>
        \A i \in Headers :
            LET e == cfg.Entries[i] IN
            e.Value = IF Has(overrides, "header")
                      THEN Applied(e, overrides["header"])
                      ELSE IF cfg.Entries[LastHeader].Store /\ Has(Persisted, "header")
                      THEN Applied(e, Persisted["header"])
                      ELSE e.Default
    /\ pc \in {"RenderCommitMessage", "Commit", "updateParamMap"} =>
        /\ Len(prompts) = Len(doc.entries)
        /\ \A i \in EntryIndexes : prompts[i] = doc.entries[i].name
    /\ msg.ok =>
        msg.text = (IF Len(cfg.Entries) = 3 THEN cfg.Entries[2].Value ELSE sNoValue)
                   \o <<":", " ">> \o cfg.Entries[LastHeader].Value
    /\ (pc = "exit" /\ exitCode = 0) =>
        /\ writes = 1
        /\ Has(Written, "header") <=> cfg.Entries[LastHeader].Store
        /\ Has(Written, "header") => Written["header"] = cfg.Entries[LastHeader].Value

\* a committed run in which the two entries, both store-flagged, were
\* answered differently
C27_Witness ==
    /\ pc = "exit"
    /\ exitCode = 0
    /\ Len(cfg.Entries) = 3
    /\ prompts = <<"header", "type", "header">>
    /\ cfg.Entries[1].Store
    /\ cfg.Entries[3].Store
    /\ cfg.Entries[1].Value = <<"a">>
    /\ cfg.Entries[3].Value = <<"e_acute">>
    /\ Written["header"] = <<"e_acute">>
    /\ commits = << sFix \o <<":", " ", "e_acute">> >>

\* both entries seeded from one override
C27_OverlaySeedsBoth ==
    /\ Seeded
    /\ Has(overrides, "header")
    /\ overrides["header"] = <<"a", "b">>
    /\ \A i \in Headers : cfg.Entries[i].Value = <<"a", "b">>
    /\ cfg.Entries[FirstHeader].Default # cfg.Entries[LastHeader].Default

\* the first entry store-flagged, the last not: the name is not written
C27_FirstStoredOnly ==
    /\ pc = "exit"
    /\ exitCode = 0
    /\ cfg.Entries[FirstHeader].Store
    /\ ~cfg.Entries[LastHeader].Store
    /\ ~Has(Written, "header")

-----------------------------------------------------------------------------
(* Properties of the order of the steps of a run, under SpecFaults *)

\* the steps of runCommity a value of pc can be followed by
NextSteps(p) ==
    CASE p = "FindGitRepository" -> {"GetStagedFiles", "exit"}
      [] p = "GetStagedFiles" -> {"LoadConfig", "exit"}
      [] p = "LoadConfig" -> {"UnmarshalYAML", "exit"}
      [] p = "UnmarshalYAML" -> {"UnmarshalYAML", "CheckConfig", "exit"}
      [] p = "CheckConfig" -> {"restoreParamMap", "exit"}
      [] p = "restoreParamMap" -> {"groups"}
      [] p = "groups" -> {"form"}
      [] p = "form" -> {"form", "RenderCommitMessage", "exit"}
      [] p = "RenderCommitMessage" -> {"Commit", "exit"}
      [] p = "Commit" -> {"updateParamMap", "exit"}
      [] p = "updateParamMap" -> {"exit"}
      [] OTHER -> {}

\* what each step after the first leaves behind when it has run: the count
\* of staged files, the configuration, the read of the cache file, a prompt,
\* the message, the commit, the write of the cache file
StepRan(k) ==
    CASE k = 2 -> stagedFiles > 0
      [] k = 3 -> c # NilConfig \/ cfg # NilConfig
      [] k = 4 -> cfg.ok /\ Len(cfg.Entries) > 0 /\ cfg.Template # ""
      [] k = 5 -> reads > 0
      [] k = 6 -> prompts # <<>>
      [] k = 7 -> msg.ok
      [] k = 8 -> commits # <<>>
      [] k = 9 -> writes > 0

\* the first step that has not run when the run ends with this message
FirstNotRun(text) ==
    CASE text = "Error findig git repository" -> 2
      [] text = "Error checking added files" -> 2
      [] text = "Nothing to commit" -> 2
      [] text = "Error loading configuration" -> 4
      [] text = "Invalid configuration: no entries or template provided" -> 4
      [] text = "Commit Canceled - Goodbye!" -> 7
      [] text = "Error running commity" -> 7
      [] text = "Error rendering commit message" -> 7
      [] text = "Error while doing commit" -> 8
      [] OTHER -> 10

\* every step that has run was preceded by the steps before it, and there is
\* at most one commit
StepsInOrder ==
    /\ \A k \in 3..9 : StepRan(k) => StepRan(k - 1)
    /\ StepRan(7) => prompts = Groups(cfg)
    /\ Len(commits) <= 1
    /\ commits # <<>> => commits = <<msg.text>>
    /\ writes <= 1

\* a run that ends with an error message or is cancelled has a non-zero exit
\* status and ran none of the later steps
FailureEndsRun ==
    (pc = "exit" /\ outText.text # "Commit successful!") =>
        /\ exitCode # 0
        /\ FirstNotRun(outText.text) < 10
        /\ \A k \in FirstNotRun(outText.text)..9 : ~StepRan(k)

\* the read of the cache file failed
ReadFailed == reads > 0 /\ loadParamMapFromFile(fileAtStart)[2]

\* C28 as stated: the steps run in the fixed order, and a failure at any of
\* them, the read and the write of the persisted map included, ends the run
\* with a non-zero exit status before any later step.
C28_AnyFailureEndsRun ==
    /\ StepsInOrder
    /\ FailureEndsRun
    /\ ReadFailed => (pc = "exit" /\ exitCode # 0 /\ prompts = <<>>)
    /\ SaveFailed => (pc = "exit" /\ exitCode # 0)

\* C28: the steps run in the fixed order locate, count, load, check, read,
\* collect, render, commit, write; a failure of locate, count, load, check,
\* collect, render or commit, a cancel, or a count of zero ends the run with
\* a non-zero exit status and no later step runs (no config is loaded and no
\* prompt shown when nothing is staged); a failed read of the persisted map
\* lets the run go on and a failed write ends it with status 0; at most one
\* commit is made.
C28_FatalFailureEndsRun ==
    /\ [](StepsInOrder /\ FailureEndsRun)
    /\ [](SaveFailed => (pc = "exit" /\ exitCode = 0 /\ Len(commits) = 1))
    /\ [](ReadFailed => (pc # "restoreParamMap" /\ paramMap = overrides
                         /\ (pc = "groups" => exitCode = -1)))
    /\ [][pc' \in NextSteps(pc)]_vars

\* a run that failed to read the cache file, showed every prompt, committed
\* once and failed to write the cache file
C28_Witness ==
    /\ pc = "exit"
    /\ exitCode = 0
    /\ ReadFailed
    /\ SaveFailed
    /\ prompts = Groups(cfg)
    /\ Len(prompts) > 1
    /\ Len(commits) = 1

\* a run that found nothing staged: no configuration, no prompt
C28_NothingStaged ==
    /\ pc = "exit"
    /\ exitCode = 1
    /\ outText.text = "Nothing to commit"
    /\ doc.found
    /\ cfg = NilConfig
    /\ prompts = <<>>

====
